---- MODULE Spec2Model ----
(***************************************************************************)
(* The two-call note generator of obsidian_note_gen (core.py): the text    *)
(* utilities, the inference client, the metadata parser and its fallback   *)
(* policy, the renderer, the atomic write, and the single-subject and      *)
(* batch pipelines as a state machine.                                     *)
(*                                                                         *)
(* A Python str is a sequence of one-character strings.                    *)
(***************************************************************************)
EXTENDS Integers, Sequences, FiniteSets, TLC

(***************************************************************************)
(* core.py 29-50: the taxonomy; core.py 188-209: the classifier's rules.   *)
(***************************************************************************)
TOPIC_LIST ==
  << <<"C","o","m","p","u","t","e","r","s"," ","&"," ","I","n","f","o","r","m","a","t","i","o","n">>,
     <<"P","h","i","l","o","s","o","p","h","y">>,
     <<"P","s","y","c","h","o","l","o","g","y"," ","&"," ","S","e","l","f","-","H","e","l","p">>,
     <<"R","e","l","i","g","i","o","n"," ","&"," ","S","p","i","r","i","t","u","a","l","i","t","y">>,
     <<"S","o","c","i","a","l"," ","S","c","i","e","n","c","e","s">>,
     <<"P","o","l","i","t","i","c","s"," ","&"," ","G","o","v","e","r","n","m","e","n","t">>,
     <<"E","c","o","n","o","m","i","c","s"," ","&"," ","B","u","s","i","n","e","s","s">>,
     <<"E","d","u","c","a","t","i","o","n"," ","&"," ","T","e","a","c","h","i","n","g">>,
     <<"L","a","n","g","u","a","g","e"," ","&"," ","L","i","n","g","u","i","s","t","i","c","s">>,
     <<"S","c","i","e","n","c","e"," ","(","G","e","n","e","r","a","l",")">>,
     <<"M","a","t","h","e","m","a","t","i","c","s">>,
     <<"P","h","y","s","i","c","s"," ","&"," ","A","s","t","r","o","n","o","m","y">>,
     <<"C","h","e","m","i","s","t","r","y">>,
     <<"B","i","o","l","o","g","y">>,
     <<"M","e","d","i","c","i","n","e"," ","&"," ","H","e","a","l","t","h">>,
     <<"E","n","g","i","n","e","e","r","i","n","g"," ","&"," ","T","e","c","h","n","o","l","o","g","y">>,
     <<"A","r","t","s"," ","&"," ","D","e","s","i","g","n">>,
     <<"L","i","t","e","r","a","t","u","r","e"," ","&"," ","W","r","i","t","i","n","g">>,
     <<"H","i","s","t","o","r","y"," ","&"," ","G","e","o","g","r","a","p","h","y">>,
     <<"T","r","a","v","e","l"," ","&"," ","R","e","c","r","e","a","t","i","o","n">> >>

checks ==
  << [needles |-> <<<<"a","i">>, <<"l","l","m">>, <<"d","a","t","a">>, <<"i","n","t","e","r","n","e","t">>, <<"c","o","m","p","u","t">>, <<"i","n","f","o">>>>,
      label |-> <<"C","o","m","p","u","t","e","r","s"," ","&"," ","I","n","f","o","r","m","a","t","i","o","n">>],
     [needles |-> <<<<"p","h","i","l","o","s","o","p","h","y">>, <<"e","t","h","i","c">>, <<"l","o","g","i","c">>, <<"e","p","i","s","t","e","m">>>>,
      label |-> <<"P","h","i","l","o","s","o","p","h","y">>],
     [needles |-> <<<<"p","s","y","c","h","o","l","o","g","y">>, <<"a","d","h","d">>, <<"m","e","n","t","a","l">>, <<"t","h","e","r","a","p","y">>, <<"s","e","l","f","-","h","e","l","p">>>>,
      label |-> <<"P","s","y","c","h","o","l","o","g","y"," ","&"," ","S","e","l","f","-","H","e","l","p">>],
     [needles |-> <<<<"r","e","l","i","g","i","o","n">>, <<"s","p","i","r","i","t","u","a","l">>, <<"t","h","e","o","l","o","g">>, <<"m","y","t","h","o","l","o","g">>>>,
      label |-> <<"R","e","l","i","g","i","o","n"," ","&"," ","S","p","i","r","i","t","u","a","l","i","t","y">>],
     [needles |-> <<<<"s","o","c","i","o","l","o","g">>, <<"a","n","t","h","r","o","p","o","l","o","g">>, <<"c","u","l","t","u","r","e">>, <<"g","e","n","d","e","r">>>>,
      label |-> <<"S","o","c","i","a","l"," ","S","c","i","e","n","c","e","s">>],
     [needles |-> <<<<"p","o","l","i","t","i","c">>, <<"p","o","l","i","c","y">>, <<"g","o","v","e","r","n","m","e","n","t">>, <<"l","a","w">>, <<"e","l","e","c","t","i","o","n">>>>,
      label |-> <<"P","o","l","i","t","i","c","s"," ","&"," ","G","o","v","e","r","n","m","e","n","t">>],
     [needles |-> <<<<"b","u","s","i","n","e","s","s">>, <<"s","t","a","r","t","u","p">>, <<"m","a","r","k","e","t">>, <<"e","c","o","n","o","m">>, <<"f","i","n","a","n","c","e">>, <<"i","n","v","e","s","t">>>>,
      label |-> <<"E","c","o","n","o","m","i","c","s"," ","&"," ","B","u","s","i","n","e","s","s">>],
     [needles |-> <<<<"e","d","u","c","a","t","i","o","n">>, <<"t","e","a","c","h","i","n","g">>, <<"c","u","r","r","i","c","u","l","u","m">>, <<"p","e","d","a","g","o","g">>>>,
      label |-> <<"E","d","u","c","a","t","i","o","n"," ","&"," ","T","e","a","c","h","i","n","g">>],
     [needles |-> <<<<"l","i","n","g","u","i","s","t">>, <<"g","r","a","m","m","a","r">>, <<"l","a","n","g","u","a","g","e">>, <<"t","r","a","n","s","l","a","t","e">>>>,
      label |-> <<"L","a","n","g","u","a","g","e"," ","&"," ","L","i","n","g","u","i","s","t","i","c","s">>],
     [needles |-> <<<<"s","c","i","e","n","c","e">>, <<"s","c","i","e","n","t","i","f","i","c"," ","m","e","t","h","o","d">>>>,
      label |-> <<"S","c","i","e","n","c","e"," ","(","G","e","n","e","r","a","l",")">>],
     [needles |-> <<<<"m","a","t","h">>, <<"a","l","g","e","b","r","a">>, <<"c","a","l","c","u","l","u","s">>, <<"s","t","a","t","i","s","t","i","c">>>>,
      label |-> <<"M","a","t","h","e","m","a","t","i","c","s">>],
     [needles |-> <<<<"p","h","y","s","i","c","s">>, <<"a","s","t","r","o","n","o","m","y">>, <<"c","o","s","m","o">>, <<"q","u","a","n","t","u","m">>>>,
      label |-> <<"P","h","y","s","i","c","s"," ","&"," ","A","s","t","r","o","n","o","m","y">>],
     [needles |-> <<<<"c","h","e","m","i","s","t","r","y">>, <<"c","h","e","m","i","c","a","l">>, <<"c","o","m","p","o","u","n","d">>, <<"r","e","a","g","e","n","t">>>>,
      label |-> <<"C","h","e","m","i","s","t","r","y">>],
     [needles |-> <<<<"b","i","o","l","o","g","y">>, <<"g","e","n","e","t","i","c">>, <<"z","o","o","l","o","g">>, <<"e","c","o","l","o","g">>, <<"f","l","o","r","a">>, <<"f","a","u","n","a">>>>,
      label |-> <<"B","i","o","l","o","g","y">>],
     [needles |-> <<<<"m","e","d","i","c","i","n","e">>, <<"h","e","a","l","t","h">>, <<"c","l","i","n","i","c">>, <<"n","u","t","r","i","t","i","o","n">>, <<"s","l","e","e","p">>>>,
      label |-> <<"M","e","d","i","c","i","n","e"," ","&"," ","H","e","a","l","t","h">>],
     [needles |-> <<<<"e","n","g","i","n","e","e","r">>, <<"r","o","b","o","t","i","c">>, <<"c","i","v","i","l">>, <<"e","l","e","c","t","r","i","c","a","l">>, <<"m","e","c","h","a","n","i","c","a","l">>, <<"t","e","c","h","n","o","l","o","g","y">>>>,
      label |-> <<"E","n","g","i","n","e","e","r","i","n","g"," ","&"," ","T","e","c","h","n","o","l","o","g","y">>],
     [needles |-> <<<<"a","r","t">>, <<"d","e","s","i","g","n">>, <<"p","h","o","t","o">>, <<"a","r","c","h","i","t","e","c">>>>,
      label |-> <<"A","r","t","s"," ","&"," ","D","e","s","i","g","n">>],
     [needles |-> <<<<"l","i","t","e","r","a","t","u","r","e">>, <<"w","r","i","t","i","n","g">>, <<"p","o","e","t","r","y">>, <<"n","o","v","e","l">>, <<"c","r","i","t","i","c","i","s","m">>>>,
      label |-> <<"L","i","t","e","r","a","t","u","r","e"," ","&"," ","W","r","i","t","i","n","g">>],
     [needles |-> <<<<"h","i","s","t","o","r","y">>, <<"g","e","o","g","r","a","p","h">>, <<"c","a","r","t","o","g","r","a","p","h">>, <<"h","i","s","t","o","r">>>>,
      label |-> <<"H","i","s","t","o","r","y"," ","&"," ","G","e","o","g","r","a","p","h","y">>],
     [needles |-> <<<<"t","r","a","v","e","l">>, <<"t","o","u","r","i","s">>, <<"h","o","b","b","y">>, <<"s","p","o","r","t">>, <<"r","e","c","r","e","a","t">>>>,
      label |-> <<"T","r","a","v","e","l"," ","&"," ","R","e","c","r","e","a","t","i","o","n">>] >>

(***************************************************************************)
(* Characters and the str methods the code uses.                           *)
(***************************************************************************)
UpperAZ == <<"A","B","C","D","E","F","G","H","I","J","K","L","M",
             "N","O","P","Q","R","S","T","U","V","W","X","Y","Z">>

LowerAZ == <<"a","b","c","d","e","f","g","h","i","j","k","l","m",
             "n","o","p","q","r","s","t","u","v","w","x","y","z">>

Digits == <<"0","1","2","3","4","5","6","7","8","9">>

Range(s) == { s[i] : i \in DOMAIN s }

\* the element of a one-element set. Only({ f(x) : x \in {e} }) is f(e) with
\* e worked out once, where f uses it many times
Only(S) == CHOOSE x \in S : TRUE

\* the class [a-z0-9]
LowerAlnum == Range(LowerAZ) \cup Range(Digits)

\* the class [A-Za-z0-9]
Alnum == LowerAlnum \cup Range(UpperAZ)

\* what str.strip(), str.rstrip() and str.split() take for whitespace
Whitespace == {" ", "\t", "\n", "\r", "\f"}

\* str.lower() on one character
lower_char(c) ==
  IF c \in Range(UpperAZ)
    THEN LowerAZ[CHOOSE i \in DOMAIN UpperAZ : UpperAZ[i] = c]
    ELSE c

\* str.lower()
lower(s) == [i \in DOMAIN s |-> lower_char(s[i])]

RECURSIVE lstrip_chars(_, _)
\* str.lstrip(chars)
lstrip_chars(s, cs) ==
  IF s # <<>> /\ Head(s) \in cs THEN lstrip_chars(Tail(s), cs) ELSE s

RECURSIVE rstrip_chars(_, _)
\* str.rstrip(chars)
rstrip_chars(s, cs) ==
  IF s # <<>> /\ s[Len(s)] \in cs
    THEN rstrip_chars(SubSeq(s, 1, Len(s) - 1), cs)
    ELSE s

\* str.strip(chars)
strip_chars(s, cs) == rstrip_chars(lstrip_chars(s, cs), cs)

\* str.strip()
strip(s) == strip_chars(s, Whitespace)

\* str.rstrip()
rstrip(s) == rstrip_chars(s, Whitespace)

\* needle in s, for two str
contains(s, needle) ==
  \E i \in 1..(Len(s) - Len(needle) + 1) :
    SubSeq(s, i, i + Len(needle) - 1) = needle

\* str.startswith
startswith(s, p) == Len(p) <= Len(s) /\ SubSeq(s, 1, Len(p)) = p

RECURSIVE concat_range(_, _, _)
\* parts[lo] \o ... \o parts[hi], by halves
concat_range(parts, lo, hi) ==
  IF lo > hi THEN <<>>
  ELSE IF lo = hi THEN parts[lo]
  ELSE concat_range(parts, lo, (lo + hi) \div 2)
         \o concat_range(parts, ((lo + hi) \div 2) + 1, hi)

\* "".join(parts)
concat(parts) == concat_range(parts, 1, Len(parts))

\* str.replace(c, rep) for a one-character c
replace_char(s, c, rep) ==
  concat([i \in DOMAIN s |-> IF s[i] = c THEN rep ELSE <<s[i]>>])

\* re.sub("[^<keep>]+", rep, s): every maximal run of characters outside
\* keep becomes one rep
re_sub_outside(s, keep, rep) ==
  concat([i \in DOMAIN s |->
            IF s[i] \in keep THEN <<s[i]>>
            ELSE IF i = 1 \/ s[i - 1] \in keep THEN rep
            ELSE <<>>])

\* re.sub("-{2,}", "-", s): every run of two or more "-" becomes one
re_sub_dashes(s) ==
  concat([i \in DOMAIN s |->
            IF s[i] # "-" \/ i = 1 \/ s[i - 1] # "-" THEN <<s[i]>> ELSE <<>>])

RECURSIVE split(_)
\* str.split(): the whitespace-separated tokens
split(s) ==
  LET t == lstrip_chars(s, Whitespace)
      n == IF \E i \in DOMAIN t : t[i] \in Whitespace
             THEN (CHOOSE i \in DOMAIN t :
                     t[i] \in Whitespace /\ \A j \in 1..(i - 1) : t[j] \notin Whitespace) - 1
             ELSE Len(t)
  IN IF t = <<>> THEN <<>>
     ELSE <<SubSeq(t, 1, n)>> \o split(SubSeq(t, n + 1, Len(t)))

RECURSIVE join(_, _)
\* sep.join(parts)
join(sep, parts) ==
  IF parts = <<>> THEN <<>>
  ELSE IF Len(parts) = 1 THEN parts[1]
  ELSE parts[1] \o sep \o join(sep, Tail(parts))

(***************************************************************************)
(* core.py 57-80: the slug and text utilities.                             *)
(***************************************************************************)
\* a faulty slug: the name that stands in for an empty slug is no slug
slug_file_titled_default(s) ==
  Only({ IF r # <<>> THEN r ELSE <<"N","e","w"," ","N","o","t","e">>
         : r \in {re_sub_dashes(strip_chars(re_sub_outside(lower(s), LowerAlnum, <<"-">>),
                                            {"-"}))} })

slug_file(s) ==
  Only({ IF r # <<>> THEN r ELSE <<"n","o","t","e">>
         : r \in {re_sub_dashes(strip_chars(re_sub_outside(lower(s), LowerAlnum, <<"-">>),
                                            {"-"}))} })

slug_tag(s) ==
  LET and == <<" ","a","n","d"," ">>
      t == replace_char(replace_char(lower(s), "&", and), "+", and)
  IN re_sub_dashes(strip_chars(re_sub_outside(t, LowerAlnum, <<"-">>), {"-"}))

escape_yaml(s) == replace_char(s, "\"", <<"\\", "\"">>)

first_token_word(s) ==
  LET tok == split(strip(re_sub_outside(s, Alnum, <<" ">>)))
  IN IF tok # <<>> THEN lower(tok[1]) ELSE <<"t","o","p","i","c">>

(***************************************************************************)
(* Python values as json.loads yields them: one record shape for None,     *)
(* bool, int, str, list and dict (a dict keeps its keys in order).         *)
(***************************************************************************)
PyNone == [t |-> "null", n |-> 0, s |-> <<>>, items |-> <<>>]

PyBool(b) == [t |-> "bool", n |-> IF b THEN 1 ELSE 0, s |-> <<>>, items |-> <<>>]

PyInt(n) == [t |-> "int", n |-> n, s |-> <<>>, items |-> <<>>]

PyStr(s) == [t |-> "str", n |-> 0, s |-> s, items |-> <<>>]

PyList(items) == [t |-> "list", n |-> 0, s |-> <<>>, items |-> items]

\* items: a sequence of [k |-> str, v |-> value]
PyDict(items) == [t |-> "dict", n |-> 0, s |-> <<>>, items |-> items]

\* bool(v): Python's truth value
truthy(v) ==
  CASE v.t = "null" -> FALSE
    [] v.t \in {"bool", "int"} -> v.n # 0
    [] v.t = "str" -> v.s # <<>>
    [] OTHER -> v.items # <<>>

\* d[k] = v on a dict's items
dict_set(items, k, v) ==
  IF \E i \in DOMAIN items : items[i].k = k
    THEN [i \in DOMAIN items |-> IF items[i].k = k THEN [k |-> k, v |-> v] ELSE items[i]]
    ELSE Append(items, [k |-> k, v |-> v])

\* d.get(k, default) on a dict
dict_get(d, k, default) ==
  IF \E i \in DOMAIN d.items : d.items[i].k = k
    THEN d.items[CHOOSE i \in DOMAIN d.items : d.items[i].k = k].v
    ELSE default

RECURSIVE digits_of(_)
\* str(n) for n >= 0
digits_of(n) ==
  IF n < 10 THEN <<Digits[n + 1]>> ELSE digits_of(n \div 10) \o <<Digits[(n % 10) + 1]>>

\* str(n) for an int
int_str(n) == IF n < 0 THEN <<"-">> \o digits_of(0 - n) ELSE digits_of(n)

RECURSIVE int_of(_)
\* int(s) for a run of digits
int_of(s) ==
  IF s = <<>> THEN 0
  ELSE 10 * int_of(SubSeq(s, 1, Len(s) - 1))
         + (CHOOSE d \in 0..9 : Digits[d + 1] = s[Len(s)])

(***************************************************************************)
(* json.loads (core.py 112, 163) on the JSON the model reads: objects,     *)
(* arrays, strings with the escapes \" \\ \/ \n \t \r \f, integers, true,  *)
(* false, null, and whitespace between tokens.                             *)
(***************************************************************************)
JsonFail == [ok |-> FALSE, v |-> PyNone, i |-> 0]

JsonOk(v, i) == [ok |-> TRUE, v |-> v, i |-> i]

\* s[i], or "" past the end
char_at(s, i) == IF i \in DOMAIN s THEN s[i] ELSE ""

\* s[i-1 : i-1+n], shorter or empty past the end
sub_at(s, i, n) ==
  IF i > Len(s) THEN <<>>
  ELSE SubSeq(s, i, IF i + n - 1 <= Len(s) THEN i + n - 1 ELSE Len(s))

RECURSIVE skip_ws(_, _)
skip_ws(s, i) ==
  IF char_at(s, i) \in {" ", "\t", "\n", "\r"} THEN skip_ws(s, i + 1) ELSE i

RECURSIVE scan_digits(_, _)
scan_digits(s, i) ==
  IF char_at(s, i) \in Range(Digits) THEN scan_digits(s, i + 1) ELSE i

\* whether the backslash at j starts an escape: the backslashes from i up to
\* it, with none but backslashes between, are odd in number
escape_at(s, i, j) ==
  /\ s[j] = "\\"
  /\ LET b == { x \in i..j : \A y \in x..j : s[y] = "\\" }
     IN Cardinality(b) % 2 = 1

\* what the escape \e stands for, "" if it is none
unescape(e) ==
  CASE e \in {"\"", "\\", "/"} -> e
    [] e = "n" -> "\n"
    [] e = "t" -> "\t"
    [] e = "r" -> "\r"
    [] e = "f" -> "\f"
    [] OTHER -> ""

\* the string whose opening quote is at i - 1: it ends at the first quote no
\* escape takes
scan_string(s, i) ==
  LET ends == { j \in i..Len(s) : s[j] = "\"" /\ (j = i \/ ~escape_at(s, i, j - 1)) }
      e == CHOOSE j \in ends : \A x \in ends : j <= x
      bad == \E j \in i..(e - 1) :
               \/ s[j] \in {"\n", "\t", "\r", "\f"}
               \/ escape_at(s, i, j) /\ unescape(s[j + 1]) = ""
  IN IF ends = {} THEN JsonFail
     ELSE IF bad THEN JsonFail
     ELSE JsonOk(PyStr(concat([x \in 1..(e - i) |->
                                 LET j == i + x - 1
                                 IN IF escape_at(s, i, j) THEN <<>>
                                    ELSE IF j > i /\ escape_at(s, i, j - 1)
                                      THEN <<unescape(s[j])>>
                                    ELSE <<s[j]>>])),
                 e + 1)

scan_number(s, i) ==
  LET neg == char_at(s, i) = "-"
      b == IF neg THEN i + 1 ELSE i
      e == IF char_at(s, b) = "0" THEN b + 1 ELSE scan_digits(s, b)
  IN IF e = b THEN JsonFail
     ELSE JsonOk(PyInt((IF neg THEN -1 ELSE 1) * int_of(SubSeq(s, b, e - 1))), e)

RECURSIVE parse_value(_, _)
RECURSIVE parse_items(_, _, _)
RECURSIVE parse_members(_, _, _)

\* a member's key: the string that starts at i
parse_key(s, i) == IF char_at(s, i) = "\"" THEN scan_string(s, i + 1) ELSE JsonFail

\* a member's ":" at i and the value after it
parse_colon_value(s, i) ==
  IF char_at(s, i) # ":" THEN JsonFail
  ELSE Only({ parse_value(s, j) : j \in {skip_ws(s, i + 1)} })

\* the value that starts at i
parse_value(s, i) ==
  LET c == char_at(s, i)
  IN CASE c = "\"" -> scan_string(s, i + 1)
       [] c = "[" ->
            Only({ IF char_at(s, j) = "]" THEN JsonOk(PyList(<<>>), j + 1)
                   ELSE parse_items(s, j, <<>>)
                   : j \in {skip_ws(s, i + 1)} })
       [] c = "{" ->
            Only({ IF char_at(s, j) = "}" THEN JsonOk(PyDict(<<>>), j + 1)
                   ELSE parse_members(s, j, <<>>)
                   : j \in {skip_ws(s, i + 1)} })
       [] c = "-" \/ c \in Range(Digits) -> scan_number(s, i)
       [] sub_at(s, i, 4) = <<"n","u","l","l">> -> JsonOk(PyNone, i + 4)
       [] sub_at(s, i, 4) = <<"t","r","u","e">> -> JsonOk(PyBool(TRUE), i + 4)
       [] sub_at(s, i, 5) = <<"f","a","l","s","e">> -> JsonOk(PyBool(FALSE), i + 5)
       [] OTHER -> JsonFail

\* the rest of an array: a value at or after i, then "," or "]"
parse_items(s, i, acc) ==
  Only({ IF ~r.ok THEN JsonFail
         ELSE Only({ CASE char_at(s, j) = "," -> parse_items(s, j + 1, Append(acc, r.v))
                       [] char_at(s, j) = "]" -> JsonOk(PyList(Append(acc, r.v)), j + 1)
                       [] OTHER -> JsonFail
                     : j \in {skip_ws(s, r.i)} })
         : r \in {parse_value(s, skip_ws(s, i))} })

\* the rest of an object: "key": value at or after i, then "," or "}"
parse_members(s, i, acc) ==
  Only({ IF ~key.ok THEN JsonFail
         ELSE Only({ IF ~r.ok THEN JsonFail
                     ELSE Only({ CASE char_at(s, j) = "," -> parse_members(s, j + 1, d)
                                   [] char_at(s, j) = "}" -> JsonOk(PyDict(d), j + 1)
                                   [] OTHER -> JsonFail
                                 : j \in {skip_ws(s, r.i)},
                                   d \in {dict_set(acc, key.v.s, r.v)} })
                     : r \in {parse_colon_value(s, skip_ws(s, key.i))} })
         : key \in {parse_key(s, skip_ws(s, i))} })

\* json.loads(s): [ok |-> FALSE] stands for json.JSONDecodeError
json_loads(s) ==
  Only({ IF r.ok /\ skip_ws(s, r.i) = Len(s) + 1 THEN r ELSE JsonFail
         : r \in { Only({ parse_value(s, j) : j \in {skip_ws(s, 1)} }) } })

json_escape(s) ==
  concat([i \in DOMAIN s |->
            CASE s[i] = "\"" -> <<"\\", "\"">>
              [] s[i] = "\\" -> <<"\\", "\\">>
              [] s[i] = "\n" -> <<"\\", "n">>
              [] s[i] = "\t" -> <<"\\", "t">>
              [] s[i] = "\r" -> <<"\\", "r">>
              [] s[i] = "\f" -> <<"\\", "f">>
              [] OTHER -> <<s[i]>>])

json_quote(s) == <<"\"">> \o json_escape(s) \o <<"\"">>

RECURSIVE json_dumps(_)
\* json.dumps(v) (core.py 107, 120, 233), with its default separators
json_dumps(v) ==
  CASE v.t = "null" -> <<"n","u","l","l">>
    [] v.t = "bool" -> IF v.n # 0 THEN <<"t","r","u","e">> ELSE <<"f","a","l","s","e">>
    [] v.t = "int" -> int_str(v.n)
    [] v.t = "str" -> json_quote(v.s)
    [] v.t = "list" ->
         <<"[">> \o join(<<",", " ">>, [i \in DOMAIN v.items |-> json_dumps(v.items[i])])
                 \o <<"]">>
    [] OTHER ->
         <<"{">> \o join(<<",", " ">>,
                         [i \in DOMAIN v.items |->
                            json_quote(v.items[i].k) \o <<":", " ">> \o json_dumps(v.items[i].v)])
                 \o <<"}">>

(***************************************************************************)
(* str(v), repr(v) and list(v), which the code applies to whatever the     *)
(* metadata response decoded to.                                            *)
(***************************************************************************)
repr_escape(s, q) ==
  concat([i \in DOMAIN s |->
            CASE s[i] = q -> <<"\\", q>>
              [] s[i] = "\\" -> <<"\\", "\\">>
              [] s[i] = "\n" -> <<"\\", "n">>
              [] s[i] = "\t" -> <<"\\", "t">>
              [] s[i] = "\r" -> <<"\\", "r">>
              [] s[i] = "\f" -> <<"\\", "x", "0", "c">>
              [] OTHER -> <<s[i]>>])

\* repr(s) for a str: single quotes unless s has ' and no "
str_repr(s) ==
  LET q == IF "'" \in Range(s) /\ "\"" \notin Range(s) THEN "\"" ELSE "'"
  IN <<q>> \o repr_escape(s, q) \o <<q>>

RECURSIVE py_repr(_)
\* repr(v)
py_repr(v) ==
  CASE v.t = "null" -> <<"N","o","n","e">>
    [] v.t = "bool" -> IF v.n # 0 THEN <<"T","r","u","e">> ELSE <<"F","a","l","s","e">>
    [] v.t = "int" -> int_str(v.n)
    [] v.t = "str" -> str_repr(v.s)
    [] v.t = "list" ->
         <<"[">> \o join(<<",", " ">>, [i \in DOMAIN v.items |-> py_repr(v.items[i])])
                 \o <<"]">>
    [] OTHER ->
         <<"{">> \o join(<<",", " ">>,
                         [i \in DOMAIN v.items |->
                            str_repr(v.items[i].k) \o <<":", " ">> \o py_repr(v.items[i].v)])
                 \o <<"}">>

\* str(v), format(v)
py_str(v) == IF v.t = "str" THEN v.s ELSE py_repr(v)

\* list(v): the items of a list, the characters of a str, the keys of a dict;
\* TypeError for None, bool and int
py_list(v) ==
  CASE v.t = "list" -> [exc |-> "", items |-> v.items]
    [] v.t = "str" -> [exc |-> "", items |-> [i \in DOMAIN v.s |-> PyStr(<<v.s[i]>>)]]
    [] v.t = "dict" -> [exc |-> "", items |-> [i \in DOMAIN v.items |-> PyStr(v.items[i].k)]]
    [] OTHER -> [exc |-> "TypeError", items |-> <<>>]

\* x in v, for a one-character str x: a substring of a str, an item of a
\* list, a key of a dict; TypeError for None, bool and int
py_in(x, v) ==
  CASE v.t = "str" -> [exc |-> "", val |-> x \in Range(v.s)]
    [] v.t = "list" -> [exc |-> "", val |-> PyStr(<<x>>) \in Range(v.items)]
    [] v.t = "dict" -> [exc |-> "", val |-> \E i \in DOMAIN v.items : v.items[i].k = <<x>>]
    [] OTHER -> [exc |-> "TypeError", val |-> FALSE]

(***************************************************************************)
(* core.py 53-54. datetime.now() is naive, so %z formats as "".            *)
(***************************************************************************)
pad(n, width) ==
  LET d == digits_of(n)
  IN [i \in 1..(width - Len(d)) |-> "0"] \o d

\* now: [Y, M, D, h, m, s], the local wall clock
iso_now(now) ==
  pad(now.Y, 4) \o <<"-">> \o pad(now.M, 2) \o <<"-">> \o pad(now.D, 2) \o <<"T">>
    \o pad(now.h, 2) \o <<":">> \o pad(now.m, 2) \o <<":">> \o pad(now.s, 2)

(***************************************************************************)
(* core.py 102-120: the inference client, applied to a response body that  *)
(* was received. urlopen failing is the pipeline's NetworkError step.      *)
(***************************************************************************)
\* a faulty client: a body that does not parse is passed on as the output
http_json_post_raw(body) ==
  Only({ IF r.ok THEN r.v
         ELSE PyDict(<< [k |-> <<"o","k">>, v |-> PyBool(FALSE)],
                        [k |-> <<"o","u","t","p","u","t">>, v |-> PyStr(body)] >>)
         : r \in {json_loads(body)} })

http_json_post(body) ==
  Only({ IF r.ok THEN r.v
         ELSE PyDict(<< [k |-> <<"o","k">>, v |-> PyBool(FALSE)],
                        [k |-> <<"o","u","t","p","u","t">>, v |-> PyStr(<<>>)],
                        [k |-> <<"r","a","w">>, v |-> PyStr(body)] >>)
         : r \in {json_loads(body)} })

\* core.py 119-120, for the envelope env: [exc, val]
infer_output(env) ==
  IF env.t # "dict" THEN [exc |-> "AttributeError", val |-> <<>>]
  ELSE Only({ [exc |-> "", val |-> IF out.t = "str" THEN out.s ELSE json_dumps(out)]
              : out \in {dict_get(env, <<"o","u","t","p","u","t">>, PyStr(<<>>))} })

\* [exc, val]: val is the str returned; exc names the exception raised
api_infer(body) == Only({ infer_output(env) : env \in {http_json_post(body)} })

(***************************************************************************)
(* core.py 161-171                                                         *)
(***************************************************************************)
MetaZero == [title |-> PyStr(<<>>), topic |-> PyStr(<<>>), topics |-> <<>>, tags |-> <<>>]

\* core.py 164-169, for the decoded object o: [exc, val]
meta_fields(o) ==
  IF o.t # "dict" THEN [exc |-> "AttributeError", val |-> MetaZero]
  ELSE Only({ IF tl.exc # "" THEN [exc |-> tl.exc, val |-> MetaZero]
              ELSE IF gl.exc # "" THEN [exc |-> gl.exc, val |-> MetaZero]
              ELSE [exc |-> "",
                    val |-> [title |-> dict_get(o, <<"t","i","t","l","e">>, PyStr(<<>>)),
                             topic |-> dict_get(o, <<"t","o","p","i","c">>, PyStr(<<>>)),
                             topics |-> tl.items,
                             tags |-> gl.items]]
              : tl \in {py_list(dict_get(o, <<"t","o","p","i","c","s">>, PyList(<<>>)))},
                gl \in {py_list(dict_get(o, <<"t","a","g","s">>, PyList(<<>>)))} })

\* whatever is raised in the try block is caught, and the zero record returned
parse_meta_output(raw) ==
  Only({ IF ~r.ok THEN MetaZero
         ELSE Only({ IF f.exc # "" THEN MetaZero ELSE f.val : f \in {meta_fields(r.v)} })
         : r \in {json_loads(raw)} })

(***************************************************************************)
(* core.py 174-183                                                         *)
(***************************************************************************)
RECURSIVE sanitize_loop(_, _, _)
\* the loop from item i on, with out accepted so far (seen is out's set)
sanitize_loop(tops, i, out) ==
  IF i > Len(tops) THEN out
  ELSE LET t == tops[i]
           out2 == IF t.t = "str" /\ t.s \in Range(TOPIC_LIST) /\ t \notin Range(out)
                     THEN Append(out, t) ELSE out
       IN IF Len(out2) >= 4 THEN out2 ELSE sanitize_loop(tops, i + 1, out2)

\* a faulty filter: a label is taken every time it comes
sanitize_topics_repeating(tops) ==
  Only({ SubSeq(kept, 1, IF Len(kept) < 4 THEN Len(kept) ELSE 4)
         : kept \in {SelectSeq(tops, LAMBDA t : t.t = "str" /\ t.s \in Range(TOPIC_LIST))} })

sanitize_topics(tops) == sanitize_loop(tops, 1, <<>>)

(***************************************************************************)
(* core.py 186-213                                                         *)
(***************************************************************************)
\* a faulty classifier: of the rules that match, the last one wins
fallback_topic_last_match(subject) ==
  LET s == lower(subject)
      hit == { i \in DOMAIN checks :
                 \E j \in DOMAIN checks[i].needles : contains(s, checks[i].needles[j]) }
  IN IF hit # {}
       THEN checks[CHOOSE i \in hit : \A k \in hit : i >= k].label
       ELSE <<"C","o","m","p","u","t","e","r","s"," ","&"," ",
              "I","n","f","o","r","m","a","t","i","o","n">>

fallback_topic_for_subject(subject) ==
  LET s == lower(subject)
      hit == { i \in DOMAIN checks :
                 \E j \in DOMAIN checks[i].needles : contains(s, checks[i].needles[j]) }
  IN IF hit # {}
       THEN checks[CHOOSE i \in hit : \A k \in hit : i <= k].label
       ELSE <<"C","o","m","p","u","t","e","r","s"," ","&"," ",
              "I","n","f","o","r","m","a","t","i","o","n">>

(***************************************************************************)
(* core.py 216-227                                                         *)
(***************************************************************************)
RECURSIVE tag_loop(_, _, _)
\* the loop from value i on, with the slugs accepted so far
tag_loop(vals, i, slugs) ==
  IF i > Len(vals) THEN slugs
  ELSE Only({ tag_loop(vals, i + 1,
                       IF sv # <<>> /\ sv \notin Range(slugs) THEN Append(slugs, sv) ELSE slugs)
              : sv \in { Only({ slug_tag(x) : x \in {py_str(vals[i])} }) } })

\* a faulty builder: nothing stands in when no slug is left
build_yaml_tags_no_fallback(topics, extra_tags, topic_word) ==
  Only({ [exc |-> "", val |-> slugs] : slugs \in {tag_loop(topics \o extra_tags, 1, <<>>)} })

\* [exc, val]: val is the list of tag slugs
build_yaml_tags(topics, extra_tags, topic_word) ==
  LET w == IF truthy(topic_word) THEN topic_word ELSE PyStr(<<"t","o","p","i","c">>)
  IN Only({ IF slugs # <<>> THEN [exc |-> "", val |-> slugs]
            ELSE IF w.t # "str" THEN [exc |-> "AttributeError", val |-> <<>>]
            ELSE [exc |-> "", val |-> <<slug_tag(w.s)>>]
            : slugs \in {tag_loop(topics \o extra_tags, 1, <<>>)} })

(***************************************************************************)
(* core.py 230-244                                                         *)
(***************************************************************************)
\* the header block, up to and with the blank line after it
front_matter(subject, title, one_word_topic, topics, tag_slugs, now) ==
  LET t == IF truthy(title) THEN title ELSE PyStr(subject)
      w == IF truthy(one_word_topic) THEN one_word_topic
           ELSE PyStr(first_token_word(subject))
  IN <<"-","-","-","\n">>
       \o <<"t","i","t","l","e",":"," ","\"">> \o escape_yaml(t.s) \o <<"\"","\n">>
       \o <<"c","r","e","a","t","e","d",":"," ","\"">> \o iso_now(now) \o <<"\"","\n">>
       \o <<"t","o","p","i","c",":"," ","\"">> \o py_str(w) \o <<"\"","\n">>
       \o <<"t","o","p","i","c","s",":"," ">> \o json_dumps(PyList(topics)) \o <<"\n">>
       \o <<"t","a","g","s",":"," ","[">> \o join(<<",", " ">>, tag_slugs) \o <<"]","\n">>
       \o <<"-","-","-","\n","\n">>

\* a faulty renderer: the body is appended as it came
render_markdown_untrimmed(subject, title, one_word_topic, topics, tag_slugs, body, now) ==
  IF truthy(title) /\ title.t # "str"
    THEN [exc |-> "AttributeError", val |-> <<>>]
    ELSE [exc |-> "",
          val |-> front_matter(subject, title, one_word_topic, topics, tag_slugs, now)
                    \o body \o <<"\n">>]

\* [exc, val]: val is the document; body is a str
render_markdown(subject, title, one_word_topic, topics, tag_slugs, body, now) ==
  IF truthy(title) /\ title.t # "str"
    THEN [exc |-> "AttributeError", val |-> <<>>]
    ELSE [exc |-> "",
          val |-> front_matter(subject, title, one_word_topic, topics, tag_slugs, now)
                    \o rstrip(body) \o <<"\n">>]

(***************************************************************************)
(* The inputs the model draws from.                                        *)
(***************************************************************************)
\* what the model may answer to the metadata prompt
MetaOutputs ==
  { \* the reply of tests/test_core.py 7-15
    <<"{","\"","t","i","t","l","e","\"",":"," ","\"","A","n","c","i","e","n","t"," ","B","r","i","d","g","e","s","\"",","," ","\"","t","o","p","i","c","\"",":"," ","\"","b","r","i","d","g","e","s","\"",","," ","\"","t","o","p","i","c","s","\"",":"," ","[","\"","H","i","s","t","o","r","y"," ","&"," ","G","e","o","g","r","a","p","h","y","\"",","," ","\"","E","n","g","i","n","e","e","r","i","n","g"," ","&"," ","T","e","c","h","n","o","l","o","g","y","\"","]",","," ","\"","t","a","g","s","\"",":"," ","[","\"","a","r","c","h","i","t","e","c","t","u","r","e","\"",","," ","\"","s","t","o","n","e","\"","]","}">>,
    \* text that is not JSON
    <<"S","u","r","e",","," ","h","e","r","e"," ","i","t"," ","i","s">>,
    \* JSON that is not an object
    <<"[","1","]">>,
    \* an object with fields missing
    <<"{","\"","t","i","t","l","e","\"",":"," ","\"","T","\"","}">>,
    \* a number for the title
    <<"{","\"","t","i","t","l","e","\"",":"," ","5",","," ","\"","t","o","p","i","c","\"",":"," ","\"","w","\"","}">>,
    \* a number for the topic
    <<"{","\"","t","i","t","l","e","\"",":"," ","\"","T","\"",","," ","\"","t","o","p","i","c","\"",":"," ","7","}">>,
    \* a number for the topics, beside a valid title
    <<"{","\"","t","i","t","l","e","\"",":"," ","\"","T","\"",","," ","\"","t","o","p","i","c","s","\"",":"," ","5","}">>,
    \* a string for the tags
    <<"{","\"","t","i","t","l","e","\"",":"," ","\"","T","\"",","," ","\"","t","a","g","s","\"",":"," ","\"","a","b","\"","}">>,
    \* null for every field
    <<"{","\"","t","i","t","l","e","\"",":"," ","n","u","l","l",","," ","\"","t","o","p","i","c","\"",":"," ","n","u","l","l",","," ","\"","t","o","p","i","c","s","\"",":"," ","n","u","l","l",","," ","\"","t","a","g","s","\"",":"," ","n","u","l","l","}">>,
    \* a list for the title
    <<"{","\"","t","i","t","l","e","\"",":"," ","[","\"","x","\"","]","}">>,
    \* a list for the topic, nested lists for topics and tags
    <<"{","\"","t","o","p","i","c","\"",":"," ","[","\"","a"," ","b","\"","]",","," ","\"","t","o","p","i","c","s","\"",":"," ","[","[","\"","B","i","o","l","o","g","y","\"","]","]",","," ","\"","t","a","g","s","\"",":"," ","[","[","\"","a","\"","]","]","}">>,
    \* a topic with a space, a quoted title, topics off the taxonomy and repeated
    <<"{","\"","t","i","t","l","e","\"",":"," ","\"","S","a","y"," ","\\","\"","h","i","\\","\"","\"",","," ","\"","t","o","p","i","c","\"",":"," ","\"","t","w","o"," ","w","o","r","d","s","\"",","," ","\"","t","o","p","i","c","s","\"",":"," ","[","\"","N","o","p","e","\"",","," ","\"","M","a","t","h","e","m","a","t","i","c","s","\"",","," ","\"","M","a","t","h","e","m","a","t","i","c","s","\"",","," ","\"","A","r","t","s"," ","&"," ","D","e","s","i","g","n","\"","]",","," ","\"","t","a","g","s","\"",":"," ","[","\"","R","&","D","\"",","," ","\"","a","r","t","s"," ","a","n","d"," ","d","e","s","i","g","n","\"","]","}">>,
    \* more than four taxonomy labels
    <<"{","\"","t","o","p","i","c","s","\"",":"," ","[","\"","B","i","o","l","o","g","y","\"",","," ","\"","C","h","e","m","i","s","t","r","y","\"",","," ","\"","B","i","o","l","o","g","y","\"",","," ","\"","P","h","i","l","o","s","o","p","h","y","\"",","," ","\"","M","a","t","h","e","m","a","t","i","c","s","\"",","," ","\"","A","r","t","s"," ","&"," ","D","e","s","i","g","n","\"","]",","," ","\"","t","a","g","s","\"",":"," ","[","]","}">> }

\* the metadata answer of tests/test_core.py 7-15, already decoded by the server
GoodMeta ==
  PyDict(<<[k |-> <<"t","i","t","l","e">>, v |-> PyStr(<<"A","n","c","i","e","n","t"," ","B","r","i","d","g","e","s">>)], [k |-> <<"t","o","p","i","c">>, v |-> PyStr(<<"b","r","i","d","g","e","s">>)], [k |-> <<"t","o","p","i","c","s">>, v |-> PyList(<<PyStr(<<"H","i","s","t","o","r","y"," ","&"," ","G","e","o","g","r","a","p","h","y">>), PyStr(<<"E","n","g","i","n","e","e","r","i","n","g"," ","&"," ","T","e","c","h","n","o","l","o","g","y">>)>>)], [k |-> <<"t","a","g","s">>, v |-> PyList(<<PyStr(<<"a","r","c","h","i","t","e","c","t","u","r","e">>), PyStr(<<"s","t","o","n","e">>)>>)]>>)

\* what the model may answer to the body prompt
BodyOutputs ==
  { \* tests/test_core.py 18-19, shortened
    <<"B","o","d","y"," ","t","e","x","t"," ","x","x">>,
    \* no text
    <<>>,
    \* whitespace only
    <<" ","\n">>,
    \* trailing whitespace and newlines
    <<"O","n","e",".","\n","\n","T","w","o","."," ","\n","\n">> }

\* the subject argument of a process_subject call
Subjects ==
  { <<>>,
    <<" "," ">>,
    <<" ","A","n","c","i","e","n","t"," ","B","r","i","d","g","e","s">>,
    <<"Q","u","a","n","t","u","m"," ","C","o","m","p","u","t","i","n","g"," ","B","a","s","i","c","s">>,
    <<"!","!","!">>,
    <<"S","a","y"," ","\"","h","i","\"">> }

\* response bodies that are not of the form {"output": ...}
OddBodies ==
  { \* not JSON
    <<"<","h","t","m","l",">","5","0","2","<","/","h","t","m","l",">">>,
    \* JSON, not an object
    <<"[","1","]">>,
    \* an object without output
    <<"{","\"","o","k","\"",":"," ","t","r","u","e","}">> }

\* the rows csv.reader may yield
Rows ==
  { \* a blank line
    <<>>,
    \* a comment
    <<<<"#"," ","l","a","t","e","r">>>>,
    \* two columns
    <<<<"A","n","c","i","e","n","t"," ","B","r","i","d","g","e","s">>, <<"x">>>>,
    \* one column, padded
    <<<<" ","a","b"," ">>>>,
    \* a blank first column
    <<<<" "," ">>, <<"z","z">>>> }

Placeholder ==
  <<"(","M","o","d","e","l"," ","r","e","t","u","r","n","e","d"," ","n","o"," ","b","o","d","y"," ","t","e","x","t",".",")">>

\* a response body {"output": out}, as the inference server encodes it
Envelope(out) == json_dumps(PyDict(<< [k |-> <<"o","u","t","p","u","t">>, v |-> out] >>))

\* the response bodies of the metadata call and of the body call
MetaBodies ==
  { Envelope(PyStr(m)) : m \in MetaOutputs } \cup { Envelope(GoodMeta) } \cup OddBodies

BodyBodies ==
  { Envelope(PyStr(b)) : b \in BodyOutputs } \cup { Envelope(PyInt(5)) } \cup OddBodies

\* the response bodies within a batch
BatchMetaBodies == { Envelope(GoodMeta), <<"<","h","t","m","l",">">> }

BatchBodyBodies == { Envelope(PyStr(<<"B","o","d","y">>)), Envelope(PyStr(<<>>)) }

\* the longest batch
MaxRows == 3

RECURSIVE SeqsUpTo(_, _)
\* the sequences over S of length at most n
SeqsUpTo(S, n) ==
  IF n = 0 THEN { <<>> }
  ELSE UNION { shorter \cup { Append(q, x) : q \in { r \in shorter : Len(r) = n - 1 }, x \in S }
               : shorter \in { SeqsUpTo(S, n - 1) } }

\* the local wall clock when a note is rendered
Clocks == { [Y |-> 2025, M |-> 1, D |-> 2, h |-> 3, m |-> 4, s |-> 5],
            [Y |-> 2025, M |-> 12, D |-> 31, h |-> 23, m |-> 59, s |-> 59] }

\* the wall clock within a batch
BatchClocks == { [Y |-> 2025, M |-> 1, D |-> 2, h |-> 3, m |-> 4, s |-> 5] }

\* the random part of tempfile.NamedTemporaryFile's name
TmpSuffixes == { <<"a","b","1","2","c","d","3","4">>, <<"_","x","y","9","8","z","w","7">> }

\* the random part within a batch
BatchTmpSuffixes == { <<"a","b","1","2","c","d","3","4">> }

\* the notes directory, and a note that was there before
NotesDir == <<"N","o","t","e","s">>

OldNote == <<"o","l","d","\n">>

(***************************************************************************)
(* core.py 21-26: the default delays, in seconds.                          *)
(***************************************************************************)
meta_to_content == 30

between_rows == 120

(***************************************************************************)
(* The file system, as far as the code touches it.                         *)
(***************************************************************************)
\* os.path.join(a, b)
os_path_join(a, b) ==
  IF startswith(b, <<"/">>) THEN b
  ELSE IF a = <<>> \/ a[Len(a)] = "/" THEN a \o b
  ELSE a \o <<"/">> \o b

\* what a reader finds at path p
file_at(files, p) ==
  IF p \in DOMAIN files THEN [exists |-> TRUE, data |-> files[p]]
  ELSE [exists |-> FALSE, data |-> <<>>]

\* files with p holding data
file_put(files, p, data) ==
  [q \in DOMAIN files \cup {p} |-> IF q = p THEN data ELSE files[q]]

\* os.replace(src, dst): dst takes src's content in one step, src is gone
os_replace(files, src, dst) ==
  [q \in (DOMAIN files \ {src}) \cup {dst} |-> IF q = dst THEN files[src] ELSE files[q]]

\* core.py 248: the path of the note of a subject
note_path(subject) ==
  os_path_join(NotesDir, slug_file(subject) \o <<".","m","d">>)

\* a local that is not bound yet
NoStr == <<"<unbound>">>

NoVal == [t |-> "unbound", n |-> 0, s |-> <<>>, items |-> <<>>]

(***************************************************************************)
(* The state.                                                              *)
(***************************************************************************)
VARIABLES
  mode,       \* "one": process_subject is called; "csv": process_csv is
  arg,        \* the subject (mode one) or the rows of the file (mode csv)
  pc,         \* where the call stands
  row,        \* process_csv: the index of the row the loop is at
  first,      \* process_csv: first
  paths,      \* process_csv: paths
  subject,    \* process_subject: subject
  resp,       \* http_json_post: body, the response body read last
  meta_raw,   \* process_subject: meta_raw
  title,      \* process_subject: title
  topic,      \* process_subject: topic
  topics,     \* process_subject: topics
  tags,       \* process_subject: tags
  body,       \* process_subject: body
  md,         \* process_subject: md
  path,       \* write_note: path
  tmp,        \* atomic_write: the temporary file's name
  files,      \* the files on disk: path -> content
  dirs,       \* the directories on disk
  files0,     \* the files on disk before the call
  pre,        \* what was at the note's path when process_subject was called
  inflight,   \* the inference requests sent and not answered
  k,          \* how many subjects passed Validate
  log,        \* what was done so far, in order: [e, k, secs]
  result      \* how the call ended: [kind, exc, none, path, paths]

csvVars == <<row, first, paths>>

subjVars == <<subject, resp, meta_raw, title, topic, topics, tags, body, md, path, tmp, pre>>

diskVars == <<files, dirs>>

vars == <<mode, arg, pc, csvVars, subjVars, diskVars, files0, inflight, k, log, result>>

Event(e, secs) == [e |-> e, k |-> k, secs |-> secs]

NoResult == [kind |-> "running", exc |-> "", none |-> FALSE, path |-> <<>>, paths |-> <<>>]

Raised(exc) == [NoResult EXCEPT !.kind = "raise", !.exc = exc]

\* a faulty reader: only rows without a first column are skipped
row_accepted_with_comments(r) == r # <<>> /\ strip(r[1]) # <<>>

\* the subjects process_csv passes on (core.py 290-294)
row_subject(r) == IF r = <<>> THEN <<>> ELSE strip(r[1])

row_accepted(r) == row_subject(r) # <<>> /\ ~startswith(row_subject(r), <<"#">>)

\* the paths of the notes the input may lead to
Targets ==
  IF mode = "one" THEN { note_path(strip(arg)) }
  ELSE { note_path(row_subject(arg[i])) : i \in DOMAIN arg }

Init ==
  /\ mode \in {"one", "csv"}
  /\ arg \in IF mode = "one" THEN Subjects ELSE SeqsUpTo(Rows, MaxRows)
  /\ pc = IF mode = "one" THEN "Validate" ELSE "Loop"
  /\ row = 1
  /\ first = TRUE
  /\ paths = <<>>
  /\ subject = IF mode = "one" THEN arg ELSE NoStr
  /\ resp = NoStr
  /\ meta_raw = NoStr
  /\ title = NoVal
  /\ topic = NoVal
  /\ topics = <<>>
  /\ tags = <<>>
  /\ body = NoStr
  /\ md = NoStr
  /\ path = NoStr
  /\ tmp = NoStr
  /\ \E old \in BOOLEAN :
       /\ files = IF old THEN [p \in Targets |-> OldNote] ELSE <<>>
       /\ dirs = IF old THEN {NotesDir} ELSE {}
  /\ files0 = files
  /\ pre = IF mode = "one" THEN file_at(files, note_path(strip(arg))) ELSE file_at(files, NoStr)
  /\ inflight = 0
  /\ k = 0
  /\ log = <<>>
  /\ result = NoResult

(***************************************************************************)
(* core.py 279-306: process_csv. The loop head takes the next row; a row   *)
(* that is accepted calls process_subject, and CsvAfterCall is the rest    *)
(* of the loop body once that call has returned.                           *)
(***************************************************************************)
\* a faulty batch: an exception of a subject is caught and the loop goes on
RaiseCaught(exc) ==
  /\ pc' = IF mode = "one" THEN "Raised" ELSE "Return"
  /\ result' = IF mode = "one" THEN Raised(exc) ELSE [NoResult EXCEPT !.kind = "return", !.none = TRUE]

\* an exception nothing catches: it leaves process_subject, and process_csv
Raise(exc) ==
  /\ pc' = "Raised"
  /\ result' = Raised(exc)

\* core.py 290-294: the row is skipped
CsvSkipRow ==
  /\ mode = "csv" /\ pc = "Loop"
  /\ row <= Len(arg)
  /\ ~row_accepted(arg[row])
  /\ row' = row + 1
  /\ UNCHANGED <<mode, arg, pc, first, paths, subjVars, diskVars, files0, inflight, k, log, result>>

\* core.py 295-300: process_subject is called with the row's first column
CsvCallSubject ==
  /\ mode = "csv" /\ pc = "Loop"
  /\ row <= Len(arg)
  /\ row_accepted(arg[row])
  /\ pc' = "Validate"
  /\ subject' = row_subject(arg[row])
  /\ resp' = NoStr /\ meta_raw' = NoStr /\ title' = NoVal /\ topic' = NoVal /\ topics' = <<>>
  /\ tags' = <<>> /\ body' = NoStr /\ md' = NoStr /\ path' = NoStr /\ tmp' = NoStr
  /\ pre' = file_at(files, note_path(row_subject(arg[row])))
  /\ UNCHANGED <<mode, arg, csvVars, diskVars, files0, inflight, k, log, result>>

\* core.py 301-305: the path is kept, then the sleep unless first, then
\* first is cleared
CsvAfterCall ==
  /\ mode = "csv" /\ pc = "Return"
  /\ paths' = IF result.none THEN paths ELSE Append(paths, result.path)
  /\ log' = IF first THEN log ELSE Append(log, Event("sleep_rows", between_rows))
  /\ first' = FALSE
  /\ row' = row + 1
  /\ pc' = "Loop"
  /\ result' = NoResult
  /\ UNCHANGED <<mode, arg, subjVars, diskVars, files0, inflight, k>>

\* core.py 306: the file is read through
CsvReturn ==
  /\ mode = "csv" /\ pc = "Loop"
  /\ row > Len(arg)
  /\ pc' = "Done"
  /\ result' = [NoResult EXCEPT !.kind = "return", !.paths = paths]
  /\ UNCHANGED <<mode, arg, csvVars, subjVars, diskVars, files0, inflight, k, log>>

(***************************************************************************)
(* core.py 253-276: process_subject, one action per stage.                 *)
(***************************************************************************)
\* what process_subject's return does: the caller has the value
Return(val) ==
  /\ pc' = IF mode = "one" THEN "Done" ELSE "Return"
  /\ result' = val

\* a faulty pipeline: an empty subject is processed like any other
ValidateEmptyProceeds ==
  /\ pc = "Validate"
  /\ strip(subject) = <<>>
  /\ subject' = strip(subject)
  /\ k' = k + 1
  /\ pc' = "MetaRequest"
  /\ UNCHANGED <<mode, arg, csvVars, resp, meta_raw, title, topic, topics, tags, body, md,
                 path, tmp, pre, diskVars, files0, inflight, log, result>>

\* core.py 259-261: the subject is empty once trimmed
ValidateEmpty ==
  /\ pc = "Validate"
  /\ strip(subject) = <<>>
  /\ subject' = strip(subject)
  /\ Return([NoResult EXCEPT !.kind = "return", !.none = TRUE])
  /\ UNCHANGED <<mode, arg, csvVars, resp, meta_raw, title, topic, topics, tags, body, md,
                 path, tmp, pre, diskVars, files0, inflight, k, log>>

\* core.py 259-262
Validate ==
  /\ pc = "Validate"
  /\ strip(subject) # <<>>
  /\ subject' = strip(subject)
  /\ k' = k + 1
  /\ pc' = "MetaRequest"
  /\ UNCHANGED <<mode, arg, csvVars, resp, meta_raw, title, topic, topics, tags, body, md,
                 path, tmp, pre, diskVars, files0, inflight, log, result>>

\* core.py 263, 109: the metadata prompt is sent
MetaRequest ==
  /\ pc = "MetaRequest"
  /\ inflight' = inflight + 1
  /\ log' = Append(log, Event("meta_request", 0))
  /\ pc' = "MetaWait"
  /\ UNCHANGED <<mode, arg, csvVars, subjVars, diskVars, files0, k, result>>

\* core.py 263, 109-120: the response is read and api_infer returns, or raises
MetaResponse ==
  /\ pc = "MetaWait"
  /\ \E b \in IF mode = "one" THEN MetaBodies ELSE BatchMetaBodies :
       \E r \in {api_infer(b)} :
          /\ resp' = b
          /\ inflight' = inflight - 1
          /\ log' = Append(log, Event("meta_response", 0))
          /\ IF r.exc # ""
               THEN Raise(r.exc) /\ UNCHANGED meta_raw
               ELSE meta_raw' = r.val /\ pc' = "MetaResolve" /\ UNCHANGED result
  /\ UNCHANGED <<mode, arg, csvVars, subject, title, topic, topics, tags, body, md,
                 path, tmp, pre, diskVars, files0, k>>

\* core.py 109: urlopen raises (unreachable, timeout, transport failure)
MetaNetworkError ==
  /\ pc = "MetaWait"
  /\ inflight' = inflight - 1
  /\ log' = Append(log, Event("meta_error", 0))
  /\ Raise("URLError")
  /\ UNCHANGED <<mode, arg, csvVars, subjVars, diskVars, files0, k>>

\* core.py 265-266
resolve_title(t, subj) == IF ~truthy(t) THEN PyStr(subj) ELSE t

\* a faulty fallback: a topic of several words is kept
resolve_topic_unchecked(w, subj) ==
  IF ~truthy(w) THEN [exc |-> "", val |-> PyStr(first_token_word(subj))]
  ELSE [exc |-> "", val |-> w]

\* core.py 267-268: [exc, val]
resolve_topic(w, subj) ==
  IF ~truthy(w) THEN [exc |-> "", val |-> PyStr(first_token_word(subj))]
  ELSE Only({ IF sp.exc # "" THEN [exc |-> sp.exc, val |-> w]
              ELSE [exc |-> "", val |-> IF sp.val THEN PyStr(first_token_word(subj)) ELSE w]
              : sp \in {py_in(" ", w)} })

\* core.py 269
resolve_topics(tops, subj) ==
  Only({ IF clean # <<>> THEN clean ELSE <<PyStr(fallback_topic_for_subject(subj))>>
         : clean \in {sanitize_topics(tops)} })

\* core.py 264-269: the response is parsed and the fallbacks applied
MetaResolve ==
  /\ pc = "MetaResolve"
  /\ \E m \in {parse_meta_output(meta_raw)} :
       \E w \in {resolve_topic(m.topic, subject)} :
          /\ title' = resolve_title(m.title, subject)
          /\ tags' = m.tags
          /\ IF w.exc # ""
               THEN Raise(w.exc) /\ UNCHANGED <<topic, topics>>
               ELSE /\ topic' = w.val
                    /\ topics' = resolve_topics(m.topics, subject)
                    /\ pc' = "InterCallDelay"
                    /\ UNCHANGED result
  /\ UNCHANGED <<mode, arg, csvVars, subject, resp, meta_raw, body, md, path, tmp, pre,
                 diskVars, files0, inflight, k, log>>

\* a faulty pipeline: the body call follows the metadata call at once
NoInterCallDelay ==
  /\ pc = "InterCallDelay"
  /\ pc' = "BodyRequest"
  /\ UNCHANGED <<mode, arg, csvVars, subjVars, diskVars, files0, inflight, k, log, result>>

\* core.py 270
InterCallDelay ==
  /\ pc = "InterCallDelay"
  /\ log' = Append(log, Event("sleep_meta", meta_to_content))
  /\ pc' = "BodyRequest"
  /\ UNCHANGED <<mode, arg, csvVars, subjVars, diskVars, files0, inflight, k, result>>

\* core.py 271, 109: the body prompt is sent
BodyRequest ==
  /\ pc = "BodyRequest"
  /\ inflight' = inflight + 1
  /\ log' = Append(log, Event("body_request", 0))
  /\ pc' = "BodyWait"
  /\ UNCHANGED <<mode, arg, csvVars, subjVars, diskVars, files0, k, result>>

\* a faulty pipeline: the body is taken as returned
body_as_returned(x) == x

\* core.py 271-273: x or "(Model returned no body text.)"
body_or_placeholder(x) == IF x # <<>> THEN x ELSE Placeholder

\* core.py 271-273, 109-120: the response is read and api_infer returns, or raises
BodyResponse ==
  /\ pc = "BodyWait"
  /\ \E b \in IF mode = "one" THEN BodyBodies ELSE BatchBodyBodies :
       \E r \in {api_infer(b)} :
          /\ resp' = b
          /\ inflight' = inflight - 1
          /\ log' = Append(log, Event("body_response", 0))
          /\ IF r.exc # ""
               THEN Raise(r.exc) /\ UNCHANGED body
               ELSE body' = body_or_placeholder(r.val) /\ pc' = "Assemble" /\ UNCHANGED result
  /\ UNCHANGED <<mode, arg, csvVars, subject, meta_raw, title, topic, topics, tags, md,
                 path, tmp, pre, diskVars, files0, k>>

\* a faulty pipeline: a failed body call counts as an empty body
BodyErrorSwallowed ==
  /\ pc = "BodyWait"
  /\ inflight' = inflight - 1
  /\ log' = Append(log, Event("body_error", 0))
  /\ body' = Placeholder
  /\ pc' = "Assemble"
  /\ UNCHANGED <<mode, arg, csvVars, subject, resp, meta_raw, title, topic, topics, tags, md,
                 path, tmp, pre, diskVars, files0, k, result>>

\* core.py 109: urlopen raises
BodyNetworkError ==
  /\ pc = "BodyWait"
  /\ inflight' = inflight - 1
  /\ log' = Append(log, Event("body_error", 0))
  /\ Raise("URLError")
  /\ UNCHANGED <<mode, arg, csvVars, subjVars, diskVars, files0, k>>

\* core.py 274-275, 248: the tags are built, the note rendered, its path named
Assemble ==
  /\ pc = "Assemble"
  /\ \E now \in IF mode = "one" THEN Clocks ELSE BatchClocks :
       \E g \in {build_yaml_tags(topics, tags, topic)} :
         \E r \in {IF g.exc # "" THEN g
                    ELSE render_markdown(subject, title, topic, topics, g.val, body, now)} :
            IF r.exc # ""
              THEN /\ Raise(r.exc)
                   /\ UNCHANGED <<md, path, log>>
              ELSE /\ md' = r.val
                   /\ path' = note_path(subject)
                   /\ log' = Append(log, Event("render", 0))
                   /\ pc' = "EnsureDir"
                   /\ UNCHANGED result
  /\ UNCHANGED <<mode, arg, csvVars, subject, resp, meta_raw, title, topic, topics, tags,
                 body, tmp, pre, diskVars, files0, inflight, k>>

(***************************************************************************)
(* core.py 87-99: atomic_write, one action per system call.                *)
(***************************************************************************)
\* core.py 88: os.makedirs(dir, exist_ok=True)
EnsureDir ==
  /\ pc = "EnsureDir"
  /\ dirs' = dirs \cup {NotesDir}
  /\ pc' = "TmpCreate"
  /\ UNCHANGED <<mode, arg, csvVars, subjVars, files, files0, inflight, k, log, result>>

\* a faulty writer: the note's own path is opened for writing
TmpCreateInPlace ==
  /\ pc = "TmpCreate"
  /\ tmp' = path
  /\ files' = file_put(files, path, <<>>)
  /\ pc' = "TmpWrite"
  /\ UNCHANGED <<mode, arg, csvVars, subject, resp, meta_raw, title, topic, topics, tags,
                 body, md, path, pre, dirs, files0, inflight, k, log, result>>

\* core.py 90-96: the temporary file is created, empty, under a name no
\* file has
TmpCreate ==
  /\ pc = "TmpCreate"
  /\ \E x \in IF mode = "one" THEN TmpSuffixes ELSE BatchTmpSuffixes :
       LET name == path \o <<".">> \o x
       IN /\ name \notin DOMAIN files
          /\ tmp' = name
          /\ files' = file_put(files, name, <<>>)
  /\ pc' = "TmpWrite"
  /\ UNCHANGED <<mode, arg, csvVars, subject, resp, meta_raw, title, topic, topics, tags,
                 body, md, path, pre, dirs, files0, inflight, k, log, result>>

\* how much of data may be on disk after a flush: half of it, or all
flush_points(data) == { Len(data) \div 2, Len(data) }

\* core.py 97: write fills the buffer, and a flush puts more of it on disk
TmpWrite ==
  /\ pc = "TmpWrite"
  /\ \E n \in flush_points(md) :
       /\ n > Len(files[tmp])
       /\ files' = file_put(files, tmp, SubSeq(md, 1, n))
  /\ UNCHANGED <<mode, arg, pc, csvVars, subjVars, dirs, files0, inflight, k, log, result>>

\* core.py 96-98: the with block ends, close flushes what is left
TmpClose ==
  /\ pc = "TmpWrite"
  /\ files' = file_put(files, tmp, md)
  /\ pc' = "Replace"
  /\ UNCHANGED <<mode, arg, csvVars, subjVars, dirs, files0, inflight, k, log, result>>

\* a faulty writer: the temporary file is copied to the path and stays
ReplaceByCopy ==
  /\ pc = "Replace"
  /\ files' = file_put(files, path, files[tmp])
  /\ log' = Append(log, Event("persist", 0))
  /\ Return([NoResult EXCEPT !.kind = "return", !.path = path])
  /\ UNCHANGED <<mode, arg, csvVars, subjVars, dirs, files0, inflight, k>>

\* core.py 99: os.replace(tmp, path)
Replace ==
  /\ pc = "Replace"
  /\ files' = os_replace(files, tmp, path)
  /\ log' = Append(log, Event("persist", 0))
  /\ Return([NoResult EXCEPT !.kind = "return", !.path = path])
  /\ UNCHANGED <<mode, arg, csvVars, subjVars, dirs, files0, inflight, k>>

\* core.py 88-99: a system call fails (permission denied, disk full), or the
\* process is interrupted; the exception leaves atomic_write where it stands
WriteFails ==
  /\ pc \in {"EnsureDir", "TmpCreate", "TmpWrite", "Replace"}
  /\ \E exc \in {"OSError", "KeyboardInterrupt"} : Raise(exc)
  /\ UNCHANGED <<mode, arg, csvVars, subjVars, diskVars, files0, inflight, k, log>>

Next ==
  \/ CsvSkipRow \/ CsvCallSubject \/ CsvAfterCall \/ CsvReturn
  \/ ValidateEmpty \/ Validate
  \/ MetaRequest \/ MetaResponse \/ MetaNetworkError \/ MetaResolve
  \/ InterCallDelay
  \/ BodyRequest \/ BodyResponse \/ BodyNetworkError
  \/ Assemble
  \/ EnsureDir \/ TmpCreate \/ TmpWrite \/ TmpClose \/ Replace \/ WriteFails

Spec == Init /\ [][Next]_vars

(***************************************************************************)
(* The functions of core.py called on their own: a call is drawn, then the *)
(* function is applied to its arguments and its value returned.            *)
(***************************************************************************)
\* the longest list of topics a call of sanitize_topics is given
MaxTopics == 5

\* the entries of such a list: five labels of the taxonomy, and a string
\* that differs from a label by its case
TopicAtoms ==
  { PyStr(TOPIC_LIST[i]) : i \in 1..5 } \cup { PyStr(lower(TOPIC_LIST[2])) }

\* a call: the function, and its arguments by kind: two lists and a str
FnCall(fn, xs, ys, w) == [fn |-> fn, xs |-> xs, ys |-> ys, w |-> w]

\* the calls of sanitize_topics with a list of at most max entries
SanitizeCalls(max) ==
  { FnCall("sanitize_topics", tops, <<>>, <<>>) : tops \in SeqsUpTo(TopicAtoms, max) }

\* the longest list of topics, and of extra tags, a call of build_yaml_tags
\* is given
MaxTags == 2

\* the entries of such lists: a label, a tag with the label's slug, a tag
\* whose slug is empty, a plain tag
TagAtoms ==
  { PyStr(<<"A","r","t","s"," ","&"," ","D","e","s","i","g","n">>),
    PyStr(<<"a","r","t","s"," ","a","n","d"," ","d","e","s","i","g","n">>),
    PyStr(<<"!","!","!">>),
    PyStr(<<"s","t","o","n","e">>) }

\* the topic words: none, a word, one whose slug is empty
TopicWords == { <<>>, <<"b","r","i","d","g","e","s">>, <<"!","?">> }

\* the calls of build_yaml_tags with lists of at most max entries
TagCalls(max) ==
  { FnCall("build_yaml_tags", ts, es, w)
    : ts \in SeqsUpTo(TagAtoms, max), es \in SeqsUpTo(TagAtoms, max), w \in TopicWords }

\* the longest string slug_file and slug_tag are called with
MaxSlugLen == 4

\* its characters: letters of both cases, a digit, a dash, a space, and the
\* two characters slug_tag spells out
SlugChars == {"a", "B", "7", "-", " ", "&", "+"}

\* the calls of the two slug functions with a string of at most max characters
SlugCalls(max) ==
  { FnCall(fn, <<>>, <<>>, s)
    : fn \in {"slug_file", "slug_tag"}, s \in SeqsUpTo(SlugChars, max) }

\* subjects for fallback_topic_for_subject: every keyword of every rule on
\* its own, the first keywords of the rules two by two, and a few titles
\* (one that matches no rule, the empty one, one in capitals)
FallbackSubjects ==
  UNION { Range(checks[i].needles) : i \in DOMAIN checks }
    \cup { checks[i].needles[1] \o <<" ">> \o checks[j].needles[1]
           : i \in DOMAIN checks, j \in DOMAIN checks }
    \cup { <<"Q","u","a","n","t","u","m"," ","C","o","m","p","u","t","i","n","g"," ",
             "B","a","s","i","c","s">>,
           <<"Z","e","b","r","a","s">>,
           <<>>,
           <<"P","O","E","T","R","Y"," ","o","f"," ","L","A","W">> }

FallbackCalls ==
  { FnCall("fallback_topic_for_subject", <<>>, <<>>, s) : s \in FallbackSubjects }

\* what a call returned
FnReturn(v) == [kind |-> "return", val |-> v]

FnInit ==
  /\ mode = "fn"
  /\ \/ arg \in SanitizeCalls(MaxTopics)
     \/ arg \in TagCalls(MaxTags)
     \/ arg \in SlugCalls(MaxSlugLen)
     \/ arg \in FallbackCalls
  /\ pc = "Call"
  /\ row = 1
  /\ first = TRUE
  /\ paths = <<>>
  /\ subject = NoStr
  /\ resp = NoStr
  /\ meta_raw = NoStr
  /\ title = NoVal
  /\ topic = NoVal
  /\ topics = <<>>
  /\ tags = <<>>
  /\ body = NoStr
  /\ md = NoStr
  /\ path = NoStr
  /\ tmp = NoStr
  /\ files = <<>>
  /\ dirs = {}
  /\ files0 = <<>>
  /\ pre = file_at(<<>>, NoStr)
  /\ inflight = 0
  /\ k = 0
  /\ log = <<>>
  /\ result = NoResult

\* what a call leaves alone: everything but where it stands and its value
fnFrame == <<mode, arg, csvVars, subjVars, diskVars, files0, inflight, k, log>>

\* core.py 174-183
CallSanitizeTopics ==
  /\ mode = "fn" /\ pc = "Call"
  /\ arg.fn = "sanitize_topics"
  /\ result' = FnReturn(sanitize_topics(arg.xs))
  /\ pc' = "Returned"
  /\ UNCHANGED fnFrame

\* core.py 216-227
CallBuildYamlTags ==
  /\ mode = "fn" /\ pc = "Call"
  /\ arg.fn = "build_yaml_tags"
  /\ \E r \in {build_yaml_tags(arg.xs, arg.ys, PyStr(arg.w))} :
       /\ result' = IF r.exc # "" THEN Raised(r.exc) ELSE FnReturn(r.val)
       /\ pc' = IF r.exc # "" THEN "Raised" ELSE "Returned"
  /\ UNCHANGED fnFrame

\* core.py 57-61
CallSlugFile ==
  /\ mode = "fn" /\ pc = "Call"
  /\ arg.fn = "slug_file"
  /\ result' = FnReturn(slug_file(arg.w))
  /\ pc' = "Returned"
  /\ UNCHANGED fnFrame

\* core.py 64-71
CallSlugTag ==
  /\ mode = "fn" /\ pc = "Call"
  /\ arg.fn = "slug_tag"
  /\ result' = FnReturn(slug_tag(arg.w))
  /\ pc' = "Returned"
  /\ UNCHANGED fnFrame

\* core.py 186-213
CallFallbackTopic ==
  /\ mode = "fn" /\ pc = "Call"
  /\ arg.fn = "fallback_topic_for_subject"
  /\ result' = FnReturn(fallback_topic_for_subject(arg.w))
  /\ pc' = "Returned"
  /\ UNCHANGED fnFrame

FnNext ==
  \/ CallSanitizeTopics
  \/ CallBuildYamlTags
  \/ CallFallbackTopic
  \/ CallSlugFile
  \/ CallSlugTag

FnSpec == FnInit /\ [][FnNext]_vars

(***************************************************************************)
(* Two runs that write at the same time: webapp.py 42-59 serves each       *)
(* request with its own call of process_subject or process_csv, and Flask  *)
(* serves requests in threads. Each run is at write_note (core.py 247-250) *)
(* with its subject and its rendered document; the steps of atomic_write   *)
(* (core.py 87-99) of the two runs interleave on one file system. Here pc, *)
(* path, tmp, md and result hold one value per run.                        *)
(***************************************************************************)
\* the two runs
Writers == {1, 2}

\* their subjects: two whose file slugs coincide, and one of another slug
WriterSubjects == { <<"a","b">>, <<"A","B","!">>, <<"c","d">> }

\* their documents: notes rendered at different times
WriterDocs ==
  { render_markdown(<<"a","b">>, PyStr(<<"T">>), PyStr(<<"w">>), <<PyStr(TOPIC_LIST[1])>>,
                    <<<<"t">>>>, <<"B","o","d","y">>, now).val : now \in Clocks }

WriterInit ==
  /\ mode = "writers"
  /\ arg \in [Writers -> [subject : WriterSubjects, content : WriterDocs]]
  /\ pc = [w \in Writers |-> "WriteNote"]
  /\ row = 1
  /\ first = TRUE
  /\ paths = <<>>
  /\ subject = NoStr
  /\ resp = NoStr
  /\ meta_raw = NoStr
  /\ title = NoVal
  /\ topic = NoVal
  /\ topics = <<>>
  /\ tags = <<>>
  /\ body = NoStr
  /\ md = [w \in Writers |-> arg[w].content]
  /\ path = [w \in Writers |-> NoStr]
  /\ tmp = [w \in Writers |-> NoStr]
  /\ \E old \in BOOLEAN :
       /\ files = IF old THEN [p \in { note_path(arg[w].subject) : w \in Writers } |-> OldNote]
                  ELSE <<>>
       /\ dirs = IF old THEN {NotesDir} ELSE {}
  /\ files0 = files
  /\ pre = file_at(files, NoStr)
  /\ inflight = 0
  /\ k = 0
  /\ log = <<>>
  /\ result = [w \in Writers |-> NoResult]

\* what a step of a writer leaves alone besides pc, path, tmp, the disk, the
\* log and result
writerFrame ==
  <<mode, arg, csvVars, subject, resp, meta_raw, title, topic, topics, tags, body, md, pre,
    files0, inflight, k>>

\* core.py 248: the path of the note
WriterPath(w) ==
  /\ pc[w] = "WriteNote"
  /\ path' = [path EXCEPT ![w] = note_path(arg[w].subject)]
  /\ pc' = [pc EXCEPT ![w] = "EnsureDir"]
  /\ UNCHANGED <<writerFrame, tmp, diskVars, log, result>>

\* core.py 88
WriterEnsureDir(w) ==
  /\ pc[w] = "EnsureDir"
  /\ dirs' = dirs \cup {NotesDir}
  /\ pc' = [pc EXCEPT ![w] = "TmpCreate"]
  /\ UNCHANGED <<writerFrame, path, tmp, files, log, result>>

\* a faulty writer: the temporary file's name is taken whether or not a file
\* has it
WriterTmpCreateShared(w) ==
  /\ pc[w] = "TmpCreate"
  /\ \E x \in TmpSuffixes :
       \E name \in {path[w] \o <<".">> \o x} :
          /\ tmp' = [tmp EXCEPT ![w] = name]
          /\ files' = file_put(files, name, <<>>)
  /\ pc' = [pc EXCEPT ![w] = "TmpWrite"]
  /\ UNCHANGED <<writerFrame, path, dirs, log, result>>

\* core.py 90-96: the temporary file is created, empty, under a name no
\* file has (the file is opened with O_EXCL, and another name is tried when
\* that fails)
WriterTmpCreate(w) ==
  /\ pc[w] = "TmpCreate"
  /\ \E x \in TmpSuffixes :
       \E name \in {path[w] \o <<".">> \o x} :
          /\ name \notin DOMAIN files
          /\ tmp' = [tmp EXCEPT ![w] = name]
          /\ files' = file_put(files, name, <<>>)
  /\ pc' = [pc EXCEPT ![w] = "TmpWrite"]
  /\ UNCHANGED <<writerFrame, path, dirs, log, result>>

\* core.py 97: a flush puts more of the document on disk
WriterTmpWrite(w) ==
  /\ pc[w] = "TmpWrite"
  /\ \E n \in flush_points(md[w]) :
       /\ n > Len(files[tmp[w]])
       /\ files' = file_put(files, tmp[w], SubSeq(md[w], 1, n))
  /\ UNCHANGED <<writerFrame, pc, path, tmp, dirs, log, result>>

\* core.py 96-98: close flushes what is left
WriterTmpClose(w) ==
  /\ pc[w] = "TmpWrite"
  /\ files' = file_put(files, tmp[w], md[w])
  /\ pc' = [pc EXCEPT ![w] = "Replace"]
  /\ UNCHANGED <<writerFrame, path, tmp, dirs, log, result>>

\* core.py 99, 250: os.replace(tmp, path), and the path is returned
WriterReplace(w) ==
  /\ pc[w] = "Replace"
  /\ files' = os_replace(files, tmp[w], path[w])
  /\ log' = Append(log, [e |-> "persist", k |-> w, secs |-> 0])
  /\ pc' = [pc EXCEPT ![w] = "Done"]
  /\ result' = [result EXCEPT ![w] = [NoResult EXCEPT !.kind = "return", !.path = path[w]]]
  /\ UNCHANGED <<writerFrame, path, tmp, dirs>>

\* core.py 87-99: a system call fails, the exception leaves the run
WriterFails(w) ==
  /\ pc[w] \in {"EnsureDir", "TmpCreate", "TmpWrite", "Replace"}
  /\ pc' = [pc EXCEPT ![w] = "Raised"]
  /\ result' = [result EXCEPT ![w] = Raised("OSError")]
  /\ UNCHANGED <<writerFrame, path, tmp, diskVars, log>>

WriterNext ==
  \E w \in Writers :
     \/ WriterPath(w)
     \/ WriterEnsureDir(w)
     \/ WriterTmpCreate(w)
     \/ WriterTmpWrite(w)
     \/ WriterTmpClose(w)
     \/ WriterReplace(w)
     \/ WriterFails(w)

WriterSpec == WriterInit /\ [][WriterNext]_vars

(***************************************************************************)
(* Properties of the pipeline.                                             *)
(***************************************************************************)
\* the name of the last entry of the log
last_event == IF log = <<>> THEN "" ELSE log[Len(log)].e

\* the log entries of the n-th subject, the sleeps between rows left out
events_of(n) == SelectSeq(log, LAMBDA e : e.k = n /\ e.e # "sleep_rows")

\* process_subject has returned a path to its caller
returned_path ==
  /\ pc = (IF mode = "one" THEN "Done" ELSE "Return")
  /\ result.kind = "return"
  /\ ~result.none

\* s ends with t
ends_with(s, t) == Len(t) <= Len(s) /\ SubSeq(s, Len(s) - Len(t) + 1, Len(s)) = t

\* C1: malformed model output is never an error. Once both inference calls
\* have returned their text, whatever it is, process_subject raises nothing,
\* unless the note cannot be written.
C1_MalformedOutputNeverRaises ==
  (pc = "Raised" /\ meta_raw # NoStr /\ body # NoStr)
    => result.exc \in {"OSError", "KeyboardInterrupt"}

\* a list whose items are all strings
is_str_list(v) == v.t = "list" /\ \A i \in DOMAIN v.items : v.items[i].t = "str"

\* decoding field by field: a field that is absent or of the wrong type is
\* its zero value, whatever the other fields are
decode_fieldwise(raw) ==
  Only({ IF ~r.ok THEN MetaZero
         ELSE IF r.v.t # "dict" THEN MetaZero
         ELSE Only({ [title |-> IF ti.t = "str" THEN ti ELSE PyStr(<<>>),
                      topic |-> IF to.t = "str" THEN to ELSE PyStr(<<>>),
                      topics |-> IF is_str_list(ts) THEN ts.items ELSE <<>>,
                      tags |-> IF is_str_list(tg) THEN tg.items ELSE <<>>]
                     : ti \in {dict_get(r.v, <<"t","i","t","l","e">>, PyNone)},
                       to \in {dict_get(r.v, <<"t","o","p","i","c">>, PyNone)},
                       ts \in {dict_get(r.v, <<"t","o","p","i","c","s">>, PyNone)},
                       tg \in {dict_get(r.v, <<"t","a","g","s">>, PyNone)} })
         : r \in {json_loads(raw)} })

\* C2: parse_meta_output degrades field by field. For the text the metadata
\* call returned, each of the four fields it yields is the decoded value when
\* that field is there with the right type, and the field's zero value
\* otherwise, independently of the other fields.
C2_ParseDegradesFieldwise ==
  pc = "MetaResolve" => parse_meta_output(meta_raw) = decode_fieldwise(meta_raw)

\* C3: in a batch the between-rows sleep lies between every two successive
\* subjects and not before the first. Every metadata request of a subject
\* after the first comes after a between-rows sleep that follows the note of
\* the subject before being persisted, and nothing sleeps between rows before
\* the first metadata request.
C3_SleepBetweenSubjects ==
  \A j \in DOMAIN log :
     log[j].e = "meta_request" =>
       IF log[j].k = 1
         THEN \A s \in 1..(j - 1) : log[s].e # "sleep_rows"
         ELSE \E p \in 1..(j - 1) :
                /\ log[p].e = "persist" /\ log[p].k = log[j].k - 1
                /\ \E s \in (p + 1)..(j - 1) :
                      log[s].e = "sleep_rows" /\ log[s].secs = between_rows

\* the note of the n-th subject was put in place
persisted(n) == \E i \in DOMAIN log : log[i].e = "persist" /\ log[i].k = n

\* C4: persistence is atomic at the target path. From the moment write_note
\* has named the path, the file there is as it was when process_subject was
\* called or holds the complete document, never a part of it; and when a step
\* of atomic_write fails, or the process is interrupted, the path is left as
\* it was.
C4_AtomicAtTarget ==
  path # NoStr =>
    \E f \in {file_at(files, path)} :
       /\ f = pre \/ (f.exists /\ f.data = md)
       /\ (f # pre) => (persisted(k) /\ tmp \notin DOMAIN files)
       /\ pc \in {"EnsureDir", "TmpCreate", "TmpWrite", "Replace", "Raised"} => f = pre

\* C4 witness: the write was interrupted with a part of the document in the
\* temporary file, and the note that was there before is still in place
C4_Witness ==
  /\ pc = "Raised"
  /\ result.exc \in {"OSError", "KeyboardInterrupt"}
  /\ tmp \in DOMAIN files
  /\ Len(files[tmp]) > 0 /\ Len(files[tmp]) < Len(md)
  /\ pre.exists
  /\ file_at(files, path) = pre

\* the names of the entries of a log
names_of(es) == [i \in DOMAIN es |-> es[i].e]

\* C5: a network error in either inference call aborts the subject. The
\* error is the last thing that happened: process_subject has raised it,
\* nothing was resolved, slept for, requested or rendered after it, no
\* temporary file was made, and the file at the subject's path is as it was.
C5_NetworkErrorAborts ==
  \A j \in DOMAIN log :
     log[j].e \in {"meta_error", "body_error"} =>
       /\ j = Len(log)
       /\ pc = "Raised" /\ result = Raised("URLError")
       /\ names_of(events_of(k)) \in
            { <<"meta_request", "meta_error">>,
              <<"meta_request", "meta_response", "sleep_meta", "body_request", "body_error">> }
       /\ log[j].e = "meta_error" => (meta_raw = NoStr /\ title = NoVal /\ topic = NoVal)
       /\ body = NoStr /\ md = NoStr /\ path = NoStr /\ tmp = NoStr
       /\ file_at(files, note_path(subject)) = pre
       /\ mode = "one" => files = files0

\* C5 witness: the body call failed after a metadata call that went well,
\* and the note that was there before is untouched
C5_Witness ==
  /\ pc = "Raised"
  /\ last_event = "body_error"
  /\ meta_raw # NoStr
  /\ pre.exists
  /\ file_at(files, note_path(subject)) = pre

\* the stages of a subject that leave a trace, in order
Stages ==
  <<"meta_request", "meta_response", "sleep_meta", "body_request", "body_response",
    "render", "persist">>

\* es is a run of the stages from the first on, each once, that may end in a
\* failed call
in_order(es) ==
  /\ Len(es) <= Len(Stages)
  /\ \A i \in DOMAIN es :
        \/ es[i].e = Stages[i]
        \/ i = Len(es) /\ i = 2 /\ es[i].e = "meta_error"
        \/ i = Len(es) /\ i = 5 /\ es[i].e = "body_error"

\* how many stages of the current subject are behind the point pc names
stages_done ==
  CASE pc = "MetaRequest" -> {0}
    [] pc = "MetaWait" -> {1}
    [] pc \in {"MetaResolve", "InterCallDelay"} -> {2}
    [] pc = "BodyRequest" -> {3}
    [] pc = "BodyWait" -> {4}
    [] pc = "Assemble" -> {5}
    [] pc \in {"EnsureDir", "TmpCreate", "TmpWrite", "Replace"} -> {6}
    [] pc = "Return" -> {7}
    [] pc = "Raised" -> {2, 5, 6}
    [] OTHER -> {7}

\* C6: the stages of a subject run strictly in order, none repeated. The log
\* of every subject is a run of the stages from the first on; the subjects
\* before the current one ran through all of them; the entries of different
\* subjects do not interleave; where the call stands agrees with how many
\* stages are logged; a persisted subject has exactly two requests; and at
\* most one request is in flight, and only while a call waits.
C6_StagesInOrder ==
  /\ inflight \in {0, 1}
  /\ (inflight = 1) <=> (pc \in {"MetaWait", "BodyWait"})
  /\ \A n \in 1..k : in_order(events_of(n))
  /\ \A n \in 1..(k - 1) : Len(events_of(n)) = Len(Stages)
  /\ \A i \in DOMAIN log : i > 1 => log[i - 1].k <= log[i].k
  /\ k > 0 /\ pc \notin {"Loop", "Validate"} => Len(events_of(k)) \in stages_done
  /\ \A p \in DOMAIN log :
        log[p].e = "persist" =>
          Cardinality({ i \in DOMAIN log :
                          /\ log[i].k = log[p].k
                          /\ log[i].e \in {"meta_request", "body_request"} }) = 2

\* C6 witness: a batch is through, with two subjects processed one after
\* the other
C6_Witness ==
  /\ mode = "csv"
  /\ pc = "Done"
  /\ Len(paths) >= 2
  /\ Len(events_of(1)) = 7 /\ Len(events_of(2)) = 7

\* what the client returns for a response body: [exc, val]
client_text(b) ==
  Only({ IF ~r.ok THEN [exc |-> "", val |-> <<>>]
         ELSE IF r.v.t # "dict" THEN [exc |-> "AttributeError", val |-> <<>>]
         ELSE Only({ [exc |-> "",
                      val |-> CASE out.t = "absent" -> <<>>
                                [] out.t = "str" -> out.s
                                [] OTHER -> json_dumps(out)]
                     : out \in {dict_get(r.v, <<"o","u","t","p","u","t">>,
                                         [PyNone EXCEPT !.t = "absent"])} })
         : r \in {json_loads(b)} })

\* an inference call raised while handling the response it had read
call_raised ==
  /\ pc = "Raised"
  /\ \/ last_event = "meta_response" /\ meta_raw = NoStr
     \/ last_event = "body_response" /\ body = NoStr

HeaderEnd == <<"-","-","-","\n","\n">>

\* doc is a header block, a blank line, the text b and one newline
block_then(doc, b) ==
  /\ startswith(doc, <<"-","-","-","\n">>)
  /\ ends_with(doc, b \o <<"\n">>)
  /\ ends_with(SubSeq(doc, 1, Len(doc) - Len(b) - 1), HeaderEnd)

\* doc ends with a newline that follows a character that is not whitespace
one_trailing_newline(doc) ==
  /\ Len(doc) >= 2
  /\ doc[Len(doc)] = "\n"
  /\ doc[Len(doc) - 1] \notin Whitespace

\* doc renders body as the amended statement has it
rendered_as(doc, b) ==
  \E trimmed \in {rstrip(b)} :
     /\ block_then(doc, trimmed)
     /\ trimmed # <<>> => one_trailing_newline(doc)
     /\ trimmed = <<>> => ends_with(doc, HeaderEnd \o <<"\n">>)

\* C8 (amended): the rendered document is the header block, a blank line,
\* the body with its trailing whitespace trimmed, and one newline. When the
\* trimmed body is not empty the document ends with one newline after a
\* character that is not whitespace; when it is empty (an empty body, or
\* whitespace only) the document is the header block, the blank line and one
\* more newline. This holds of render_markdown for every body, and of the
\* document process_subject writes.
C8_TrimmedBodyOneNewline ==
  /\ md # NoStr => rendered_as(md, body)
  /\ returned_path =>
       \E f \in {file_at(files, result.path)} : f.exists /\ f.data = md
  /\ pc = "Assemble" =>
       \A b \in BodyOutputs, now \in Clocks :
          \E r \in {render_markdown(subject, title, topic, topics, <<>>, b, now)} :
             r.exc = "" => rendered_as(r.val, b)

\* C8 witness: a note is written whose body came with trailing whitespace
C8_Witness ==
  /\ returned_path
  /\ rstrip(body) # body
  /\ rstrip(body) # <<>>
  /\ file_at(files, result.path).data = md
  /\ one_trailing_newline(md)

\* C8 as stated: every rendered document ends with a newline that follows a
\* character that is not whitespace.
C8_Original ==
  md # NoStr => (block_then(md, rstrip(body)) /\ one_trailing_newline(md))

\* the body call returned the empty string
empty_body_returned ==
  /\ resp # NoStr
  /\ \E r \in {api_infer(resp)} : r.exc = "" /\ r.val = <<>>

\* C9: when the body call returns the empty string the body is the
\* placeholder, it is the placeholder that is rendered, and the note
\* process_subject returns the path of holds the header block and the
\* placeholder as its body.
C9_EmptyBodyPlaceholder ==
  /\ (pc = "Assemble" /\ empty_body_returned) => body = Placeholder
  /\ (pc = "EnsureDir" /\ empty_body_returned) => block_then(md, Placeholder)
  /\ (returned_path /\ empty_body_returned) =>
       \E f \in {file_at(files, result.path)} :
          /\ result.path = note_path(subject)
          /\ f.exists
          /\ block_then(f.data, Placeholder)

\* C9 witness: the body call returned the empty string and the note is
\* written, its path returned
C9_Witness ==
  /\ returned_path
  /\ empty_body_returned
  /\ body = Placeholder
  /\ result.path \in DOMAIN files

\* " " in v, where that is defined
has_space(v) == \E r \in {py_in(" ", v)} : r.exc = "" /\ r.val

\* the lines of the header that carry the title, the topic and the topics
title_line(t) ==
  <<"-","-","-","\n","t","i","t","l","e",":"," ","\"">> \o escape_yaml(t)
    \o <<"\"","\n","c","r","e","a","t","e","d",":"," ","\"">>

topic_lines(w, ts) ==
  <<"\"","\n","t","o","p","i","c",":"," ","\"">> \o py_str(w)
    \o <<"\"","\n","t","o","p","i","c","s",":"," ">> \o json_dumps(PyList(ts))
    \o <<"\n","t","a","g","s",":"," ","[">>

\* C10: the fallbacks applied after parsing. The title is the parsed title,
\* or the subject when that is empty; the one-word topic is the parsed topic,
\* or first_token_word(subject) when that is empty or has a space; the topics
\* are the sanitized parsed topics, or the one label
\* fallback_topic_for_subject(subject) when none is left; a metadata text that
\* is not JSON gets all three fallbacks; and these are the values the header
\* of the document carries (the title with its quotes escaped).
C10_FallbackPolicy ==
  /\ pc = "InterCallDelay" =>
       \E m \in {parse_meta_output(meta_raw)} :
          /\ title = (IF truthy(m.title) THEN m.title ELSE PyStr(subject))
          /\ topic = (IF ~truthy(m.topic) \/ has_space(m.topic)
                        THEN PyStr(first_token_word(subject)) ELSE m.topic)
          /\ \E clean \in {sanitize_topics(m.topics)} :
                topics = (IF clean = <<>>
                            THEN <<PyStr(fallback_topic_for_subject(subject))>>
                            ELSE clean)
          /\ ~json_loads(meta_raw).ok =>
               /\ title = PyStr(subject)
               /\ topic = PyStr(first_token_word(subject))
               /\ topics = <<PyStr(fallback_topic_for_subject(subject))>>
  /\ pc = "EnsureDir" =>
       /\ title.t = "str"
       /\ startswith(md, title_line(title.s))
       /\ contains(md, topic_lines(topic, topics))

\* C10 witness: the metadata text was not JSON, and the note is written with
\* the subject as its title
C10_Witness ==
  /\ returned_path
  /\ meta_raw # <<>>
  /\ ~json_loads(meta_raw).ok
  /\ title = PyStr(subject)
  /\ topic = PyStr(first_token_word(subject))
  /\ startswith(file_at(files, result.path).data, title_line(subject))

(***************************************************************************)
(* Properties of the functions.                                            *)
(***************************************************************************)
\* a call of fn has returned
returned_from(fn) == mode = "fn" /\ pc = "Returned" /\ arg.fn = fn

\* the n-th smallest of a set of numbers
nth(S, n) == CHOOSE i \in S : Cardinality({ j \in S : j < i }) = n - 1

\* the entries of xs at the positions in S, in order, at most max of them
picked(xs, S, max) ==
  [n \in 1..(IF Cardinality(S) < max THEN Cardinality(S) ELSE max) |-> xs[nth(S, n)]]

\* the positions of xs that hold a taxonomy label for the first time
first_labels(xs) ==
  { i \in DOMAIN xs :
      /\ xs[i].t = "str" /\ \E l \in DOMAIN TOPIC_LIST : TOPIC_LIST[l] = xs[i].s
      /\ \A j \in 1..(i - 1) : xs[j] # xs[i] }

\* C11: sanitize_topics returns the first, at most four, distinct entries
\* of its input that are taxonomy labels, in input order: never more than
\* four entries, no entry twice, every entry a label of the taxonomy.
C11_SanitizeTopics ==
  returned_from("sanitize_topics") =>
    /\ result.val = picked(arg.xs, first_labels(arg.xs), 4)
    /\ Len(result.val) <= 4
    /\ \A i, j \in DOMAIN result.val : i # j => result.val[i] # result.val[j]
    /\ \A i \in DOMAIN result.val :
          result.val[i].t = "str" /\ result.val[i].s \in Range(TOPIC_LIST)

\* C11 witness: a list of five distinct labels is cut to its first four
C11_Witness ==
  /\ returned_from("sanitize_topics")
  /\ Cardinality(first_labels(arg.xs)) = 5
  /\ Len(result.val) = 4

\* the positions of slugs that hold a slug that is not empty for the first time
first_slugs(slugs) ==
  { i \in DOMAIN slugs : slugs[i] # <<>> /\ \A j \in 1..(i - 1) : slugs[j] # slugs[i] }

\* C12: build_yaml_tags never returns an empty list. It returns the slug_tag
\* of each topic and then of each extra tag, the empty slugs dropped and of
\* equal slugs the first kept; when none is left it returns the one slug of
\* the topic word, or of "topic" when there is no topic word.
C12_BuildYamlTags ==
  mode = "fn" /\ arg.fn = "build_yaml_tags" /\ pc # "Call" =>
    /\ pc = "Returned"
    /\ Len(result.val) >= 1
    /\ \E vals \in {arg.xs \o arg.ys} :
         \E slugs \in {[i \in DOMAIN vals |-> slug_tag(vals[i].s)]} :
            \E keep \in {first_slugs(slugs)} :
               IF keep # {}
                 THEN result.val = picked(slugs, keep, Len(slugs))
                 ELSE result.val =
                        << slug_tag(IF arg.w # <<>> THEN arg.w
                                    ELSE <<"t","o","p","i","c">>) >>

\* C12 witness: every topic and tag has an empty slug, and the topic word
\* stands in
C12_Witness ==
  /\ returned_from("build_yaml_tags")
  /\ arg.xs # <<>> /\ arg.ys # <<>>
  /\ arg.w = <<"b","r","i","d","g","e","s">>
  /\ result.val = << <<"b","r","i","d","g","e","s">> >>

\* C14: slug_file and slug_tag are idempotent: applied to what they
\* returned, each returns it again.
C14_SlugsIdempotent ==
  /\ returned_from("slug_file") => slug_file(result.val) = result.val
  /\ returned_from("slug_tag") => slug_tag(result.val) = result.val

\* C14 witness: a string of '&' and '+' between a letter and a digit was
\* slugged, and the slug differs from the string
C14_Witness ==
  /\ returned_from("slug_tag")
  /\ arg.w = <<"B", "&", "+", "7">>
  /\ result.val # arg.w
  /\ Len(result.val) > Len(arg.w)

\* rule i has a keyword that occurs in s
rule_matches(i, s) ==
  \E j \in DOMAIN checks[i].needles : contains(s, checks[i].needles[j])

ComputersAndInformation ==
  <<"C","o","m","p","u","t","e","r","s"," ","&"," ","I","n","f","o","r","m","a","t","i","o","n">>

\* C17: fallback_topic_for_subject is a classifier by priority. It returns
\* the label of the first rule, in the order listed, of which a keyword
\* occurs in the subject in lower case, and "Computers & Information" when
\* no rule has one; what it returns is a label of the taxonomy; and
\* "Quantum Computing Basics", which two rules match, gets the label of the
\* one listed first.
C17_FallbackFirstMatch ==
  returned_from("fallback_topic_for_subject") =>
    \E s \in {lower(arg.w)} :
       /\ result.val \in Range(TOPIC_LIST)
       /\ \A i \in DOMAIN checks :
             (rule_matches(i, s) /\ \A j \in 1..(i - 1) : ~rule_matches(j, s))
               => result.val = checks[i].label
       /\ (\A i \in DOMAIN checks : ~rule_matches(i, s))
             => result.val = ComputersAndInformation
       /\ arg.w = <<"Q","u","a","n","t","u","m"," ","C","o","m","p","u","t","i","n","g"," ",
                    "B","a","s","i","c","s">>
             => result.val = ComputersAndInformation

\* C17 witness: a subject that a later rule matches as well as an earlier
\* one, neither of them the first, got the earlier rule's label
C17_Witness ==
  /\ returned_from("fallback_topic_for_subject")
  /\ \E i, j \in DOMAIN checks :
        /\ 1 < i /\ i < j
        /\ rule_matches(i, lower(arg.w)) /\ rule_matches(j, lower(arg.w))
        /\ ~rule_matches(1, lower(arg.w))
        /\ result.val = checks[i].label
        /\ result.val # checks[j].label

(***************************************************************************)
(* Further properties of the pipeline.                                     *)
(***************************************************************************)
\* the subject process_subject was called with
called_subject == IF mode = "one" THEN arg ELSE row_subject(arg[row])

\* notesDir/slugFile(s).md
expected_path(s) == NotesDir \o <<"/">> \o slug_file(s) \o <<".","m","d">>

\* C13: after a successful process_subject the path returned is the notes
\* directory, the slug of the trimmed subject and ".md"; the file there
\* reads back as the document that was rendered, which has the title line,
\* a tags line and then the body; and no temporary file of the write is
\* left beside it.
C13_RoundTrip ==
  returned_path =>
    \E f \in {file_at(files, result.path)} :
       /\ result.path = expected_path(strip(called_subject))
       /\ f.exists /\ f.data = md
       /\ title.t = "str" /\ startswith(f.data, title_line(title.s))
       /\ contains(f.data, <<"\n","t","a","g","s",":"," ","[">>)
       /\ ends_with(f.data, HeaderEnd \o rstrip(body) \o <<"\n">>)
       /\ tmp \notin DOMAIN files
       /\ \A q \in DOMAIN files : ~startswith(q, result.path \o <<".">>)

\* C13 witness: a subject given with a blank before it was processed, and
\* its note took the place of the one that was there
C13_Witness ==
  /\ returned_path
  /\ mode = "one"
  /\ strip(arg) # arg
  /\ pre.exists
  /\ file_at(files, expected_path(strip(arg))).data = md
  /\ md # OldNote

\* C15: process_subject called with a subject that is empty once trimmed
\* ends in Validate and returns None, and does nothing else: no request, no
\* sleep, no directory made, no file written or changed.
C15_EmptySubjectNoEffect ==
  (mode = "one" /\ strip(arg) = <<>>) =>
    /\ pc \in {"Validate", "Done"}
    /\ pc = "Done" => result = [NoResult EXCEPT !.kind = "return", !.none = TRUE]
    /\ log = <<>> /\ inflight = 0 /\ k = 0
    /\ files = files0
    /\ dirs = (IF files0 = <<>> THEN {} ELSE {NotesDir})
    /\ meta_raw = NoStr /\ body = NoStr /\ md = NoStr /\ path = NoStr /\ tmp = NoStr

\* C15 witness: a subject of blanks was given and None returned
C15_Witness ==
  /\ mode = "one"
  /\ arg = <<" ", " ">>
  /\ pc = "Done"
  /\ result.none
  /\ dirs = {}

\* a row batch mode is to process: it has a first column that is neither
\* blank nor a comment
accepted(r) == r # <<>> /\ strip(r[1]) # <<>> /\ Head(strip(r[1])) # "#"

\* the accepted rows among the first n
accepted_upto(n) == { i \in 1..n : i <= Len(arg) /\ accepted(arg[i]) }

\* the paths of the notes of the accepted rows, in the rows' order
RECURSIVE accepted_paths(_)
accepted_paths(rows) ==
  IF rows = <<>> THEN <<>>
  ELSE (IF accepted(Head(rows)) THEN <<expected_path(strip(Head(rows)[1]))>> ELSE <<>>)
         \o accepted_paths(Tail(rows))

\* how many entries of the log are named e
count_of(e) == Cardinality({ i \in DOMAIN log : log[i].e = e })

\* C16: batch mode processes exactly the accepted rows, in input order, each
\* once. At the head of the loop and at the end, the subjects processed are
\* as many as the accepted rows read, each went through the stages once, the
\* log holds nothing else but the sleeps between rows, whose number depends
\* on the accepted rows alone, and the paths kept are those of the accepted
\* rows' first columns in order. While a subject is processed it is the
\* trimmed first column of an accepted row. At the end the list returned has
\* one path per accepted row.
C16_BatchProcessesAcceptedRows ==
  mode = "csv" =>
    /\ pc \in {"Loop", "Done"} =>
         \E n \in {Cardinality(accepted_upto(row - 1))} :
            /\ k = n
            /\ \A j \in 1..n : names_of(events_of(j)) = Stages
            /\ \A i \in DOMAIN log : log[i].k \in 1..n
            /\ count_of("sleep_rows") = (IF n = 0 THEN 0 ELSE n - 1)
            /\ paths = accepted_paths(SubSeq(arg, 1, row - 1))
    /\ pc \notin {"Loop", "Done", "Raised"} =>
         /\ row <= Len(arg)
         /\ accepted(arg[row])
         /\ subject = strip(arg[row][1])
         /\ k \in {Cardinality(accepted_upto(row - 1)), Cardinality(accepted_upto(row))}
         /\ count_of("meta_request") \in {Cardinality(accepted_upto(row - 1)), k}
    /\ pc = "Done" =>
         /\ row = Len(arg) + 1
         /\ result.kind = "return"
         /\ result.paths = accepted_paths(arg)
         /\ Len(result.paths) = Cardinality(accepted_upto(Len(arg)))

\* C16 witness: a batch of a subject, a comment and a subject with a second
\* column is read through; two paths are returned
C16_Witness ==
  /\ mode = "csv"
  /\ pc = "Done"
  /\ Len(arg) = 3
  /\ accepted(arg[1]) /\ ~accepted(arg[2]) /\ accepted(arg[3])
  /\ arg[2] # <<>>
  /\ Len(arg[3]) = 2
  /\ Len(result.paths) = 2
  /\ count_of("meta_request") = 2

\* no element of xs comes twice
no_duplicates(xs) == \A i, j \in DOMAIN xs : xs[i] = xs[j] => i = j

\* the tags line of a header
tags_line(slugs) ==
  <<"\n","t","a","g","s",":"," ","[">> \o join(<<",", " ">>, slugs) \o <<"]","\n","-","-","-","\n">>

\* C18: in every document process_subject writes, whatever the metadata
\* response was, the topics are one to four taxonomy labels without
\* duplicates, the one-word topic as written is not empty and has no space,
\* and the tags are not empty, have no duplicates and no empty tag, begin
\* with slug_tag of each topic in order, are made of a-z, 0-9 and '-' only,
\* and are what the tags line of the document carries.
C18_WrittenHeaderWellFormed ==
  returned_path =>
    \E w \in {py_str(topic)}, g \in {build_yaml_tags(topics, tags, topic)} :
       /\ Len(topics) \in 1..4
       /\ \A i \in DOMAIN topics : topics[i].t = "str" /\ topics[i].s \in Range(TOPIC_LIST)
       /\ no_duplicates(topics)
       /\ w # <<>>
       /\ " " \notin Range(w)
       /\ g.exc = ""
       /\ g.val # <<>>
       /\ no_duplicates(g.val)
       /\ \A i \in DOMAIN g.val : g.val[i] # <<>> /\ Range(g.val[i]) \subseteq LowerAlnum \cup {"-"}
       /\ Len(g.val) >= Len(topics)
       /\ \A i \in DOMAIN topics : g.val[i] = slug_tag(topics[i].s)
       /\ contains(file_at(files, result.path).data, tags_line(g.val))

\* doc is a whole note: a header block, a blank line, and a body the batch
\* may get or the placeholder
complete_note(doc) ==
  \E b \in {<<"B","o","d","y">>, Placeholder} : block_then(doc, b)

\* what holds once a subject of a batch has failed
batch_halted ==
  /\ result.kind = "raise"
  /\ result.exc \in {"URLError", "OSError", "KeyboardInterrupt"}
  /\ result.paths = <<>>
  /\ inflight = 0
  /\ row <= Len(arg) /\ accepted(arg[row])
  /\ k = Cardinality(accepted_upto(row))
  /\ \A i \in DOMAIN log : log[i].k <= k
  /\ Len(paths) = k - 1
  /\ paths = accepted_paths(SubSeq(arg, 1, row - 1))
  /\ \A i \in DOMAIN paths :
        \E f \in {file_at(files, paths[i])} : f.exists /\ complete_note(f.data)

\* C19: in process_csv a network error or a file system error while the k-th
\* accepted subject is processed halts the batch. The exception leaves
\* process_csv, which returns no list of paths; a failed call is the last
\* entry of the log; nothing is logged for a later subject; the notes of
\* the k-1 subjects before are on disk, each a whole note; and no step
\* follows.
C19_FailureHaltsBatch ==
  /\ [](mode = "csv" =>
          /\ \A i \in DOMAIN log :
                log[i].e \in {"meta_error", "body_error"} => (i = Len(log) /\ pc = "Raised")
          /\ pc = "Raised" => batch_halted)
  /\ [][mode = "csv" => pc # "Raised"]_vars

\* C19 witness: the second of three accepted subjects failed to write its
\* note; the note of the first is on disk
C19_Witness ==
  /\ mode = "csv"
  /\ pc = "Raised"
  /\ result.exc = "OSError"
  /\ k = 2
  /\ Len(paths) = 1
  /\ Len(arg) = 3 /\ row = 2 /\ accepted(arg[3])
  /\ file_at(files, paths[1]).exists
  /\ md # NoStr

(***************************************************************************)
(* Properties of two concurrent writers.                                   *)
(***************************************************************************)
\* run w has its temporary file open or ready to be renamed
holds_tmp(w) == pc[w] \in {"TmpWrite", "Replace"}

\* the run whose rename came last
last_renamer == log[Len(log)].k

\* C20: when two runs write to the same path concurrently, under every
\* interleaving of their steps: while both have a temporary file the two
\* files are distinct; a run's temporary file holds a beginning of its own
\* document and nothing else; at every moment the file at the path is what
\* was there before or the whole document of the run whose rename came
\* last; and once both runs have returned the file at the path is the whole
\* document of the run whose rename came last.
C20_ConcurrentWritersWholeDocument ==
  (mode = "writers" /\ \A w \in Writers : path[w] = note_path(arg[1].subject)) =>
    \E f \in {file_at(files, path[1])} :
       /\ (holds_tmp(1) /\ holds_tmp(2)) => tmp[1] # tmp[2]
       /\ \A w \in Writers :
             holds_tmp(w) =>
               /\ tmp[w] \in DOMAIN files
               /\ tmp[w] # path[w]
               /\ startswith(md[w], files[tmp[w]])
               /\ pc[w] = "Replace" => files[tmp[w]] = md[w]
       /\ IF log = <<>> THEN f = file_at(files0, path[1])
          ELSE f.exists /\ f.data = md[last_renamer]
       /\ (\A w \in Writers : pc[w] = "Done") =>
             /\ Len(log) = 2
             /\ f.exists /\ f.data = md[last_renamer]
             /\ \A w \in Writers : result[w].path = path[1] /\ tmp[w] \notin DOMAIN files

\* C20 witness: two runs with different subjects of one slug and different
\* documents have both returned; the second run's temporary file was made
\* while the first had its own, the first renamed last, and its document is
\* the note
C20_Witness ==
  /\ mode = "writers"
  /\ \A w \in Writers : pc[w] = "Done"
  /\ arg[1].subject # arg[2].subject
  /\ path[1] = path[2]
  /\ md[1] # md[2]
  /\ tmp[1] # tmp[2]
  /\ log = <<[e |-> "persist", k |-> 2, secs |-> 0], [e |-> "persist", k |-> 1, secs |-> 0]>>
  /\ file_at(files, path[1]).data = md[1]
  /\ files0 # <<>>

====
